---- MODULE Spec2Model ----
(***************************************************************************)
(* Model of the business-rule engines of configurable-mlm-system:          *)
(*   lib/engines/hierarchy-manager.ts     (PartnerHierarchyManager)        *)
(*   lib/engines/commission-calculator.ts (CommissionCalculationEngine)    *)
(*                                                                         *)
(* A partner id is a positive integer.  A sponsorPath string is modelled   *)
(* as the sequence of its tokens: a partner id, or SEP for the '/'         *)
(* delimiter.  '' is the empty sequence.                                   *)
(***************************************************************************)
EXTENDS Integers, Sequences, FiniteSets, TLC

\* ------------------------------------------------------------------ bounds
MaxPartners == 4
MaxCalls == 6
TicksPerMonth == 2
MaxClock == 4
NumWorkers == 2
MaxVolume == 2
MaxServiceCalls == 2
MaxReorgCalls == 3

\* --------------------------------------------------------------- constants
SEP == 0
NoSponsor == 0
DefaultMaxLevels == 5
ResidualDivisor == 2

PartnerIds == 1..MaxPartners
ConfigLevels == {2, 3}

VARIABLES partners, config, lastCall, hung, calls,
          rules, clock, calc, prevDists,
          procs, interleaved,
          query,
          thresholds, alerts, riskProfiles, executed, analysis,
          manager, configCall

hvars == <<partners, config, lastCall, hung, calls>>
cvars == <<rules, clock, calc, prevDists>>
pvars == <<procs, interleaved>>
fvars == <<thresholds, alerts, riskProfiles, executed, analysis>>
mvars == <<manager, configCall>>
vars == <<hvars, cvars, pvars, query, fvars, mvars>>

\* ------------------------------------------------------- the partner store
\* The store accessors are stubs in the source; they follow the Partner
\* store contract: get, listAll, listDirectChildren, update.
Found(s, id) == id \in DOMAIN s

getAllPartners(s) == DOMAIN s

getDirectDownline(s, partnerId) == {c \in DOMAIN s : s[c].sponsorId = partnerId}

updatePartner(s, partnerId, updates) ==
  [s EXCEPT ![partnerId] =
     [f \in DOMAIN @ |-> IF f \in DOMAIN updates THEN updates[f] ELSE @[f]]]

\* ------------------------------------------------------------ path strings
\* sponsorPath.split('/').filter(id => id.length > 0): the non-empty
\* segments between delimiters, each a sequence of tokens.
RECURSIVE SplitPath(_, _, _)
SplitPath(path, i, cur) ==
  IF i > Len(path)
    THEN (IF cur = <<>> THEN <<>> ELSE <<cur>>)
    ELSE IF path[i] = SEP
           THEN (IF cur = <<>> THEN <<>> ELSE <<cur>>) \o SplitPath(path, i + 1, <<>>)
           ELSE SplitPath(path, i + 1, Append(cur, path[i]))

DecodePath(path) == SplitPath(path, 1, <<>>)

\* sponsorPath.includes(partnerId): partnerId occurs as a substring
PathIncludes(path, partnerId) == \E i \in DOMAIN path : path[i] = partnerId

buildSponsorPath(s, sponsorId) ==
  IF ~Found(s, sponsorId) THEN <<>>
  ELSE IF s[sponsorId].sponsorPath # <<>>
         THEN s[sponsorId].sponsorPath \o <<SEP, sponsorId>>
         ELSE <<sponsorId>>

getPartnerLevel(s, partnerId) == IF Found(s, partnerId) THEN s[partnerId].level ELSE 0

Max0(x) == IF x > 0 THEN x ELSE 0

HopLimit(s) == Cardinality(DOMAIN s)

\* the ids of a set as the store lists them (in creation order)
RECURSIVE IdSeq(_)
IdSeq(S) ==
  IF S = {} THEN <<>>
  ELSE LET m == CHOOSE x \in S : \A y \in S : x <= y
       IN <<m>> \o IdSeq(S \ {m})

\* ------------------------------------------------------ getDownlineHierarchy
InDownline(s, partnerId, maxLevels, activeOnly, p) ==
  /\ PathIncludes(s[p].sponsorPath, partnerId)
  /\ p # partnerId
  /\ s[p].level - s[partnerId].level <= maxLevels
  /\ (~activeOnly \/ s[p].status = "active")

\* a.level - b.level, then a.joinDate - b.joinDate; the sort is stable
SortsBefore(s, a, b) ==
  \/ s[a].level < s[b].level
  \/ s[a].level = s[b].level /\ s[a].joinDate < s[b].joinDate
  \/ s[a].level = s[b].level /\ s[a].joinDate = s[b].joinDate /\ a <= b

RECURSIVE SortDownline(_, _)
SortDownline(s, S) ==
  IF S = {} THEN <<>>
  ELSE LET m == CHOOSE x \in S : \A y \in S : SortsBefore(s, x, y)
       IN <<m>> \o SortDownline(s, S \ {m})

getDownlineHierarchy(s, partnerId, maxLevels, activeOnly) ==
  IF ~Found(s, partnerId) THEN <<>>
  ELSE SortDownline(s, {p \in getAllPartners(s) :
                          InDownline(s, partnerId, maxLevels, activeOnly, p)})

\* --------------------------------------------------- counter propagation
\* Each walk returns the store and whether it came to an end.  A walk that
\* makes more hops than there are partners is on a sponsor cycle and never
\* returns: done = FALSE.
\* updateUplineTotalDownline counting for active ancestors only
RECURSIVE updateUplineTotalDownline_ActiveOnly(_, _, _, _)
updateUplineTotalDownline_ActiveOnly(s, sponsorId, delta, fuel) ==
  IF ~Found(s, sponsorId) THEN [store |-> s, done |-> TRUE]
  ELSE IF fuel = 0 THEN [store |-> s, done |-> FALSE]
  ELSE LET s1 == IF s[sponsorId].status = "active"
                   THEN updatePartner(s, sponsorId,
                          [totalDownline |-> Max0(s[sponsorId].totalDownline + delta)])
                   ELSE s
       IN IF s[sponsorId].sponsorId # NoSponsor
            THEN updateUplineTotalDownline_ActiveOnly(s1, s[sponsorId].sponsorId,
                                                      delta, fuel - 1)
            ELSE [store |-> s1, done |-> TRUE]

RECURSIVE updateUplineTotalDownline(_, _, _, _)
updateUplineTotalDownline(s, sponsorId, delta, fuel) ==
  IF ~Found(s, sponsorId) THEN [store |-> s, done |-> TRUE]
  ELSE IF fuel = 0 THEN [store |-> s, done |-> FALSE]
  ELSE LET s1 == updatePartner(s, sponsorId,
                   [totalDownline |-> Max0(s[sponsorId].totalDownline + delta)])
       IN IF s[sponsorId].sponsorId # NoSponsor
            THEN updateUplineTotalDownline(s1, s[sponsorId].sponsorId, delta, fuel - 1)
            ELSE [store |-> s1, done |-> TRUE]

updateSponsorDownlineCounts(s, sponsorId, delta) ==
  IF ~Found(s, sponsorId) THEN [store |-> s, done |-> TRUE]
  ELSE LET s1 == updatePartner(s, sponsorId,
                   [directReferrals |-> Max0(s[sponsorId].directReferrals + delta),
                    totalDownline |-> Max0(s[sponsorId].totalDownline + delta)])
       IN IF s[sponsorId].sponsorId # NoSponsor
            THEN updateUplineTotalDownline(s1, s[sponsorId].sponsorId, delta,
                                           HopLimit(s) - 1)
            ELSE [store |-> s1, done |-> TRUE]

\* ------------------------------------------- updateDownlineLevelsAndPaths
RECURSIVE updateDownlineLevelsAndPaths(_, _, _, _, _)
RECURSIVE updateChildren(_, _, _, _, _)
updateDownlineLevelsAndPaths(s, partnerId, newLevel, newPath, fuel) ==
  updateChildren(s, IdSeq(getDirectDownline(s, partnerId)), newLevel, newPath, fuel)

updateChildren(s, children, newLevel, newPath, fuel) ==
  IF children = <<>> THEN [store |-> s, done |-> TRUE]
  ELSE LET child == Head(children)
           childNewLevel == newLevel + 1
           childNewPath == newPath \o <<SEP, child>>
           s1 == updatePartner(s, child,
                   [level |-> childNewLevel, sponsorPath |-> childNewPath])
           r == IF fuel = 0 THEN [store |-> s1, done |-> FALSE]
                ELSE updateDownlineLevelsAndPaths(s1, child, childNewLevel,
                                                  childNewPath, fuel - 1)
       IN IF r.done
            THEN updateChildren(r.store, Tail(children), newLevel, newPath, fuel)
            ELSE r

\* ------------------------------------------------------------- movePartner
movePartner(s, cfg, partnerId, newSponsorId) ==
  IF ~Found(s, partnerId) THEN [store |-> s, result |-> "PartnerNotFound"]
  ELSE IF ~Found(s, newSponsorId) THEN [store |-> s, result |-> "SponsorNotFound"]
  ELSE LET downline == getDownlineHierarchy(s, partnerId, DefaultMaxLevels, TRUE)
           oldSponsorId == s[partnerId].sponsorId
           newLevel == s[newSponsorId].level + 1
           newSponsorPath == buildSponsorPath(s, newSponsorId)
           s1 == updatePartner(s, partnerId,
                   [sponsorId |-> newSponsorId, sponsorPath |-> newSponsorPath,
                    level |-> newLevel])
           r2 == IF oldSponsorId # NoSponsor
                   THEN updateSponsorDownlineCounts(s1, oldSponsorId, -1)
                   ELSE [store |-> s1, done |-> TRUE]
           r3 == IF r2.done THEN updateSponsorDownlineCounts(r2.store, newSponsorId, 1)
                 ELSE r2
           r4 == IF r3.done
                   THEN updateDownlineLevelsAndPaths(r3.store, partnerId, newLevel,
                          newSponsorPath \o <<SEP, partnerId>>, HopLimit(s))
                   ELSE r3
       IN IF \E i \in DOMAIN downline : downline[i] = newSponsorId
            THEN [store |-> s, result |-> "SelfCycle"]
          ELSE IF newLevel > cfg.maxHierarchyLevels
            THEN [store |-> s, result |-> "DepthExceeded"]
          ELSE [store |-> r4.store, result |-> IF r4.done THEN "ok" ELSE "diverged"]

\* ------------------------------------------------------- deactivatePartner
\* redistributeDownline returning after the first child
redistributeDownline_FirstOnly(s, cfg, directDownline, sponsorId) ==
  IF directDownline = <<>> THEN [store |-> s, result |-> "ok"]
  ELSE LET child == Head(directDownline)
       IN IF sponsorId # NoSponsor
            THEN movePartner(s, cfg, child, sponsorId)
            ELSE [store |-> updatePartner(s, child,
                              [sponsorId |-> NoSponsor, sponsorPath |-> <<>>,
                               level |-> 1]),
                  result |-> "ok"]

RECURSIVE redistributeDownline(_, _, _, _)
redistributeDownline(s, cfg, directDownline, sponsorId) ==
  IF directDownline = <<>> THEN [store |-> s, result |-> "ok"]
  ELSE LET child == Head(directDownline)
           r == IF sponsorId # NoSponsor
                  THEN movePartner(s, cfg, child, sponsorId)
                  ELSE [store |-> updatePartner(s, child,
                                    [sponsorId |-> NoSponsor, sponsorPath |-> <<>>,
                                     level |-> 1]),
                        result |-> "ok"]
       IN IF r.result = "ok"
            THEN redistributeDownline(r.store, cfg, Tail(directDownline), sponsorId)
            ELSE r

\* deactivatePartner detaching the partner from its sponsor
deactivatePartner_Detach(s, cfg, partnerId, redistribute) ==
  IF ~Found(s, partnerId) THEN [store |-> s, result |-> "PartnerNotFound"]
  ELSE [store |-> updatePartner(s, partnerId,
                    [status |-> "inactive", sponsorId |-> NoSponsor,
                     sponsorPath |-> <<>>, level |-> 1]),
        result |-> "ok"]

deactivatePartner(s, cfg, partnerId, redistribute) ==
  IF ~Found(s, partnerId) THEN [store |-> s, result |-> "PartnerNotFound"]
  ELSE LET sponsorId == s[partnerId].sponsorId
           s1 == updatePartner(s, partnerId, [status |-> "inactive"])
           r2 == IF redistribute
                   THEN redistributeDownline(s1, cfg,
                          IdSeq(getDirectDownline(s1, partnerId)), sponsorId)
                   ELSE [store |-> s1, result |-> "ok"]
           r3 == IF sponsorId # NoSponsor
                   THEN updateSponsorDownlineCounts(r2.store, sponsorId, -1)
                   ELSE [store |-> r2.store, done |-> TRUE]
       IN IF r2.result # "ok" THEN r2
          ELSE [store |-> r3.store, result |-> IF r3.done THEN "ok" ELSE "diverged"]

\* -------------------------------------------------------------- addPartner
\* partnerData is the caller's partial record, spread last into the new
\* partner.  The returned record is what the caller enrols in the store under
\* the generated id.
NoData == <<>>

\* addPartner counting the new partner before the depth check
addPartner_CountFirst(s, cfg, newId, partnerData, sponsorId) ==
  LET level == IF sponsorId # NoSponsor THEN getPartnerLevel(s, sponsorId) + 1 ELSE 1
      sponsorPath == IF sponsorId # NoSponsor THEN buildSponsorPath(s, sponsorId) ELSE <<>>
      computed == [sponsorId |-> sponsorId, sponsorPath |-> sponsorPath,
                   level |-> level,
                   status |-> IF cfg.autoActivation THEN "active" ELSE "pending",
                   joinDate |-> newId, teamVolume |-> 0,
                   directReferrals |-> 0, totalDownline |-> 0]
      newPartner == [f \in DOMAIN computed |->
                       IF f \in DOMAIN partnerData THEN partnerData[f] ELSE computed[f]]
      r == IF sponsorId # NoSponsor THEN updateSponsorDownlineCounts(s, sponsorId, 1)
           ELSE [store |-> s, done |-> TRUE]
  IN IF sponsorId # NoSponsor /\ ~Found(s, sponsorId)
       THEN [store |-> s, result |-> "InvalidSponsor", partner |-> <<>>]
     ELSE IF sponsorId # NoSponsor /\ s[sponsorId].status # "active"
       THEN [store |-> s, result |-> "SponsorNotActive", partner |-> <<>>]
     ELSE IF level > cfg.maxHierarchyLevels
       THEN [store |-> r.store, result |-> "DepthExceeded", partner |-> <<>>]
     ELSE IF ~r.done THEN [store |-> r.store, result |-> "diverged", partner |-> <<>>]
     ELSE [store |-> r.store, result |-> "ok", partner |-> <<newPartner>>]

addPartner(s, cfg, newId, partnerData, sponsorId) ==
  LET level == IF sponsorId # NoSponsor THEN getPartnerLevel(s, sponsorId) + 1 ELSE 1
      sponsorPath == IF sponsorId # NoSponsor THEN buildSponsorPath(s, sponsorId) ELSE <<>>
      computed == [sponsorId |-> sponsorId, sponsorPath |-> sponsorPath,
                   level |-> level,
                   status |-> IF cfg.autoActivation THEN "active" ELSE "pending",
                   joinDate |-> newId, teamVolume |-> 0,
                   directReferrals |-> 0, totalDownline |-> 0]
      newPartner == [f \in DOMAIN computed |->
                       IF f \in DOMAIN partnerData THEN partnerData[f] ELSE computed[f]]
      r == IF sponsorId # NoSponsor THEN updateSponsorDownlineCounts(s, sponsorId, 1)
           ELSE [store |-> s, done |-> TRUE]
  IN IF sponsorId # NoSponsor /\ ~Found(s, sponsorId)
       THEN [store |-> s, result |-> "InvalidSponsor", partner |-> <<>>]
     ELSE IF sponsorId # NoSponsor /\ s[sponsorId].status # "active"
       THEN [store |-> s, result |-> "SponsorNotActive", partner |-> <<>>]
     ELSE IF level > cfg.maxHierarchyLevels
       THEN [store |-> s, result |-> "DepthExceeded", partner |-> <<>>]
     ELSE IF ~r.done THEN [store |-> r.store, result |-> "diverged", partner |-> <<>>]
     ELSE [store |-> r.store, result |-> "ok", partner |-> <<newPartner>>]

\* ------------------------------------------------------ getUplineHierarchy
Reverse(seq) == [i \in 1..Len(seq) |-> seq[Len(seq) + 1 - i]]

\* the partners are returned as their ids
getUplineHierarchy(s, partnerId) ==
  IF ~Found(s, partnerId) THEN <<>>
  ELSE IF s[partnerId].sponsorPath = <<>> THEN <<>>
  ELSE LET sponsorIds == DecodePath(s[partnerId].sponsorPath)
           upline == SelectSeq(sponsorIds,
                               LAMBDA seg : Len(seg) = 1 /\ Found(s, seg[1]))
       IN Reverse([i \in DOMAIN upline |-> upline[i][1]])

\* ------------------------------------------------------- validateHierarchy
RECURSIVE CircularWalk(_, _, _, _)
CircularWalk(s, partnerId, current, visited) ==
  IF s[current].sponsorId = NoSponsor \/ current \in visited THEN FALSE
  ELSE IF ~Found(s, s[current].sponsorId) THEN FALSE
  ELSE IF s[current].sponsorId = partnerId THEN TRUE
  ELSE CircularWalk(s, partnerId, s[current].sponsorId, visited \cup {current})

hasCircularReference(s, partnerId) == CircularWalk(s, partnerId, partnerId, {})

PartnerErrors(s, cfg, p) ==
  (IF s[p].sponsorId = NoSponsor THEN <<>>
   ELSE IF ~Found(s, s[p].sponsorId) THEN <<[kind |-> "invalidSponsor", partner |-> p]>>
   ELSE IF s[s[p].sponsorId].level >= s[p].level
     THEN <<[kind |-> "level", partner |-> p]>>
   ELSE <<>>)
  \o (IF s[p].level > cfg.maxHierarchyLevels
        THEN <<[kind |-> "depth", partner |-> p]>> ELSE <<>>)
  \o (IF hasCircularReference(s, p)
        THEN <<[kind |-> "circular", partner |-> p]>> ELSE <<>>)

PartnerWarnings(s, p) ==
  IF s[p].sponsorPath # <<>> /\ Len(DecodePath(s[p].sponsorPath)) # s[p].level - 1
    THEN <<[kind |-> "pathLength", partner |-> p]>> ELSE <<>>

RECURSIVE CollectErrors(_, _, _)
CollectErrors(s, cfg, allPartners) ==
  IF allPartners = <<>> THEN <<>>
  ELSE PartnerErrors(s, cfg, Head(allPartners)) \o CollectErrors(s, cfg, Tail(allPartners))

RECURSIVE CollectWarnings(_, _)
CollectWarnings(s, allPartners) ==
  IF allPartners = <<>> THEN <<>>
  ELSE PartnerWarnings(s, Head(allPartners)) \o CollectWarnings(s, Tail(allPartners))

\* validateHierarchy taking warnings for errors in isValid
validateHierarchy_WarningsCount(s, cfg) ==
  LET errors == CollectErrors(s, cfg, IdSeq(getAllPartners(s)))
      warnings == CollectWarnings(s, IdSeq(getAllPartners(s)))
  IN [isValid |-> Len(errors) = 0 /\ Len(warnings) = 0,
      errors |-> errors, warnings |-> warnings]

validateHierarchy(s, cfg) ==
  LET errors == CollectErrors(s, cfg, IdSeq(getAllPartners(s)))
      warnings == CollectWarnings(s, IdSeq(getAllPartners(s)))
  IN [isValid |-> Len(errors) = 0, errors |-> errors, warnings |-> warnings]

\* ---------------------------------------------------- updatePartnerMetrics
RECURSIVE propagateVolumeUpdate(_, _, _, _)
propagateVolumeUpdate(s, sponsorId, volumeDelta, fuel) ==
  IF sponsorId = NoSponsor \/ ~Found(s, sponsorId) THEN [store |-> s, done |-> TRUE]
  ELSE IF fuel = 0 THEN [store |-> s, done |-> FALSE]
  ELSE propagateVolumeUpdate(
         updatePartner(s, sponsorId,
                       [teamVolume |-> s[sponsorId].teamVolume + volumeDelta]),
         s[sponsorId].sponsorId, volumeDelta, fuel - 1)

\* updatePartnerMetrics propagating the new value in place of the delta
updatePartnerMetrics_NewValue(s, partnerId, metrics) ==
  IF ~Found(s, partnerId) THEN [store |-> s, result |-> "PartnerNotFound"]
  ELSE IF "teamVolume" \in DOMAIN metrics /\ metrics.teamVolume # s[partnerId].teamVolume
    THEN LET r == propagateVolumeUpdate(s, s[partnerId].sponsorId,
                    metrics.teamVolume, HopLimit(s))
         IN [store |-> r.store, result |-> IF r.done THEN "ok" ELSE "diverged"]
  ELSE [store |-> s, result |-> "ok"]

\* metrics is the caller's partial record; the merged record is returned to
\* the caller and not written
updatePartnerMetrics(s, partnerId, metrics) ==
  IF ~Found(s, partnerId) THEN [store |-> s, result |-> "PartnerNotFound"]
  ELSE IF "teamVolume" \in DOMAIN metrics /\ metrics.teamVolume # s[partnerId].teamVolume
    THEN LET r == propagateVolumeUpdate(s, s[partnerId].sponsorId,
                    metrics.teamVolume - s[partnerId].teamVolume, HopLimit(s))
         IN [store |-> r.store, result |-> IF r.done THEN "ok" ELSE "diverged"]
  ELSE [store |-> s, result |-> "ok"]

\* the caller's enrolment of the record addPartner returned
insertPartner(s, newId, rec) ==
  [id \in DOMAIN s \cup {newId} |-> IF id = newId THEN rec ELSE s[id]]

\* ------------------------------------------------------------------ actions
\* ------------------------------------------------------- commission engine
\* Money is counted in half cents (0.005), so that a rounded amount times
\* the residual factor is again a whole number; a percentage rate is counted
\* in percent.  Dates are clock ticks, TicksPerMonth of them to a month.
Money(cents) == 2 * cents
Epsilon == Money(1)

MonthIndex(date) == date \div TicksPerMonth
getFullYear(date) == MonthIndex(date) \div 12
getMonth(date) == MonthIndex(date) % 12

calculateMonthsInBusiness(joinDate, now) ==
  (getFullYear(now) - getFullYear(joinDate)) * 12 + (getMonth(now) - getMonth(joinDate))

\* Math.round(x * 100) / 100 of the amount x = num / 100 half cents
RoundToCents(num) == 2 * ((num + 100) \div 200)

\* a minimum that keeps its first argument
MinOf_Left(a, b) == a

MinOf(a, b) == IF a < b THEN a ELSE b

\* an absent optional number is 0: the code tests them for truthiness
isPartnerQualified(partner, tier, now) ==
  LET criteria == tier.qualificationCriteria IN
  /\ ~(criteria.personalVolume # 0 /\ partner.personalVolume < criteria.personalVolume)
  /\ ~(criteria.teamVolume # 0 /\ partner.teamVolume < criteria.teamVolume)
  /\ ~(criteria.activeDownline # 0 /\ partner.activeDownline < criteria.activeDownline)
  /\ ~(criteria.timeInBusiness # 0
       /\ calculateMonthsInBusiness(partner.joinDate, now) < criteria.timeInBusiness)
  /\ criteria.certificationRequired \subseteq partner.certifications

\* the reduction keeping the first qualifying tier, whatever its rate
BestTier_First(tiers, i, best) ==
  IF i > Len(tiers) THEN best ELSE <<tiers[i]>>

RECURSIVE BestTier(_, _, _)
BestTier(tiers, i, best) ==
  IF i > Len(tiers) THEN best
  ELSE IF best = <<>> \/ tiers[i].commissionRate > best[1].commissionRate
         THEN BestTier(tiers, i + 1, <<tiers[i]>>)
         ELSE BestTier(tiers, i + 1, best)

\* <<>> is null, <<tier>> the tier found
findApplicableTier(rs, partner, level, now) ==
  BestTier(SelectSeq(rs.tiers,
             LAMBDA tier : tier.level = level /\ isPartnerQualified(partner, tier, now)),
           1, <<>>)

isCapApplicable(cap, partner, level) == level \in cap.applicableLevels \/ cap.applicableToAll

RECURSIVE ApplyCaps(_, _, _, _, _)
ApplyCaps(caps, i, partner, level, num) ==
  IF i > Len(caps) THEN num
  ELSE ApplyCaps(caps, i + 1, partner, level,
         IF isCapApplicable(caps[i], partner, level)
           THEN MinOf(num, 100 * caps[i].maxAmount) ELSE num)

\* calculateTierCommission taking the tier's maximumEarnings as a cap on the
\* single commission, whatever the partner has earned this month
calculateTierCommission_PerCommission(rs, transaction, partner, tier, level, product) ==
  LET commissionRate ==
        IF level \in DOMAIN product.commissionRates /\ product.commissionRates[level] # 0
          THEN product.commissionRates[level] ELSE tier.commissionRate
      raw == IF tier.commissionType = "percentage" THEN transaction.amount * commissionRate
             ELSE IF tier.commissionType = "fixed" THEN 100 * commissionRate
             ELSE 0
      capped == IF tier.maximumEarnings # 0
                  THEN MinOf(raw, 100 * tier.maximumEarnings)
                  ELSE raw
      commissionAmount == ApplyCaps(rs.caps, 1, partner, level, capped)
  IN IF tier.minimumVolume # 0 /\ transaction.amount < tier.minimumVolume THEN <<>>
     ELSE << [partnerId |-> partner.id, level |-> level, tierName |-> tier.name,
              baseAmount |-> transaction.amount, commissionRate |-> commissionRate,
              commissionAmount |-> RoundToCents(commissionAmount),
              commissionType |-> tier.commissionType] >>

\* the amount is carried in hundredths of a half cent until it is rounded
calculateTierCommission(rs, transaction, partner, tier, level, product) ==
  LET commissionRate ==
        IF level \in DOMAIN product.commissionRates /\ product.commissionRates[level] # 0
          THEN product.commissionRates[level] ELSE tier.commissionRate
      raw == IF tier.commissionType = "percentage" THEN transaction.amount * commissionRate
             ELSE IF tier.commissionType = "fixed" THEN 100 * commissionRate
             ELSE 0
      capped == IF tier.maximumEarnings # 0
                  THEN MinOf(raw, 100 * (tier.maximumEarnings - partner.currentMonthEarnings))
                  ELSE raw
      commissionAmount == ApplyCaps(rs.caps, 1, partner, level, capped)
  IN IF tier.minimumVolume # 0 /\ transaction.amount < tier.minimumVolume THEN <<>>
     ELSE << [partnerId |-> partner.id, level |-> level, tierName |-> tier.name,
              baseAmount |-> transaction.amount, commissionRate |-> commissionRate,
              commissionAmount |-> RoundToCents(commissionAmount),
              commissionType |-> tier.commissionType] >>

\* a trigger that is met whatever the partner's metric
isBonusTriggerMet_Always(partner, bonusRule) == TRUE

isBonusTriggerMet(partner, bonusRule) ==
  LET trigger == bonusRule.trigger
      known == trigger.metric \in {"monthly_volume", "team_size", "personal_sales",
                                   "consecutive_months"}
      actualValue ==
        CASE trigger.metric = "monthly_volume" -> partner.monthlyVolume
          [] trigger.metric = "team_size" -> partner.activeDownline
          [] trigger.metric = "personal_sales" -> partner.personalVolume
          [] OTHER -> partner.consecutiveActiveMonths
  IN known /\
     CASE trigger.operator = "equals" -> actualValue = trigger.value
       [] trigger.operator = "greater_than" -> actualValue > trigger.value
       [] trigger.operator = "less_than" -> actualValue < trigger.value
       [] trigger.operator = "between" ->
            actualValue >= trigger.range[1] /\ actualValue <= trigger.range[2]
       [] OTHER -> FALSE

RECURSIVE calculateBonusesFrom(_, _, _, _, _, _)
calculateBonusesFrom(rs, i, partner, transaction, tier, now) ==
  IF i > Len(rs.bonuses) THEN <<>>
  ELSE LET bonusRule == rs.bonuses[i]
           rest == calculateBonusesFrom(rs, i + 1, partner, transaction, tier, now)
           bonusAmount ==
             IF bonusRule.reward.type = "fixed_amount" THEN 100 * bonusRule.reward.value
             ELSE IF bonusRule.reward.type = "percentage"
                    THEN transaction.amount * bonusRule.reward.value
                    ELSE 0
       IN IF ~isPartnerQualified(partner,
                [tier EXCEPT !.qualificationCriteria = bonusRule.eligibilityCriteria], now)
            THEN rest
          ELSE IF ~isBonusTriggerMet(partner, bonusRule) THEN rest
          ELSE IF bonusAmount > 0
            THEN << [partnerId |-> partner.id, bonusId |-> bonusRule.id,
                     amount |-> RoundToCents(bonusAmount),
                     triggerMetric |-> bonusRule.trigger.metric] >> \o rest
          ELSE rest

calculateBonuses(rs, partner, transaction, tier, now) ==
  calculateBonusesFrom(rs, 1, partner, transaction, tier, now)

RECURSIVE SumAmounts(_, _)
SumAmounts(items, field) ==
  IF items = <<>> THEN 0 ELSE Head(items)[field] + SumAmounts(Tail(items), field)

EmptyDistribution(transaction, now) ==
  [transactionId |-> transaction.id, totalCommissionPaid |-> 0, commissions |-> <<>>,
   bonuses |-> <<>>, processingTimestamp |-> now]

\* the loop over the upline, from position i (counted from 1) on
RECURSIVE calculateLevels(_, _, _, _, _, _, _)
calculateLevels(rs, transaction, partnerHierarchy, product, i, acc, now) ==
  IF i > MinOf(Len(partnerHierarchy), rs.maxHierarchyLevels) THEN acc
  ELSE LET partner == partnerHierarchy[i]
           level == i
           tier == findApplicableTier(rs, partner, level, now)
           commissionResult ==
             IF tier = <<>> THEN <<>>
             ELSE calculateTierCommission(rs, transaction, partner, tier[1], level, product)
           partnerBonuses == calculateBonuses(rs, partner, transaction, tier[1], now)
       IN IF commissionResult # <<>> /\ commissionResult[1].commissionAmount > 0
            THEN calculateLevels(rs, transaction, partnerHierarchy, product, i + 1,
                   [acc EXCEPT
                      !.commissions = Append(@, commissionResult[1]),
                      !.bonuses = @ \o partnerBonuses,
                      !.totalCommissionPaid =
                         @ + commissionResult[1].commissionAmount
                           + SumAmounts(partnerBonuses, "amount")],
                   now)
            ELSE calculateLevels(rs, transaction, partnerHierarchy, product, i + 1, acc, now)

\* calculateCommissions refusing negative amounts only
calculateCommissions_ZeroAllowed(rs, transaction, partnerHierarchy, now) ==
  LET found == {p \in DOMAIN rs.products : rs.products[p].id = transaction.productId}
      product == rs.products[CHOOSE p \in found : \A q \in found : p <= q]
  IN IF transaction.amount < 0
       THEN [result |-> "InvalidAmount", dist |-> <<>>]
     ELSE IF found = {} \/ ~product.commissionEligible
       THEN [result |-> "ok", dist |-> <<EmptyDistribution(transaction, now)>>]
     ELSE [result |-> "ok",
           dist |-> <<calculateLevels(rs, transaction, partnerHierarchy, product, 1,
                                      EmptyDistribution(transaction, now), now)>>]

calculateCommissions(rs, transaction, partnerHierarchy, now) ==
  LET found == {p \in DOMAIN rs.products : rs.products[p].id = transaction.productId}
      product == rs.products[CHOOSE p \in found : \A q \in found : p <= q]
  IN IF transaction.amount <= 0
       THEN [result |-> "InvalidAmount", dist |-> <<>>]
     ELSE IF found = {} \/ ~product.commissionEligible
       THEN [result |-> "ok", dist |-> <<EmptyDistribution(transaction, now)>>]
     ELSE [result |-> "ok",
           dist |-> <<calculateLevels(rs, transaction, partnerHierarchy, product, 1,
                                      EmptyDistribution(transaction, now), now)>>]

\* the residual reduction applied to the rate shown, the amount left as it was
ScaleCommissions_Rate(commissions) ==
  [i \in DOMAIN commissions |->
     [commissions[i] EXCEPT !.commissionRate = @ \div ResidualDivisor]]

RECURSIVE ScaleCommissions(_)
ScaleCommissions(commissions) ==
  IF commissions = <<>> THEN <<>>
  ELSE <<[Head(commissions) EXCEPT !.commissionAmount = @ \div ResidualDivisor]>>
       \o ScaleCommissions(Tail(commissions))

RECURSIVE calculateResidualFrom(_, _, _, _, _)
calculateResidualFrom(rs, subscriptions, i, partnerHierarchy, now) ==
  IF i > Len(subscriptions) THEN [result |-> "ok", dists |-> <<>>]
  ELSE LET subscription == subscriptions[i]
           monthsActive == calculateMonthsInBusiness(subscription.startDate, now)
           residualTransaction ==
             [id |-> <<"residual", subscription.id, now>>,
              amount |-> subscription.monthlyAmount,
              productId |-> subscription.productId]
           r == calculateCommissions(rs, residualTransaction, partnerHierarchy, now)
           scaled == ScaleCommissions(r.dist[1].commissions)
           distribution ==
             [r.dist[1] EXCEPT !.commissions = scaled,
                               !.totalCommissionPaid = SumAmounts(scaled, "commissionAmount")]
           rest == calculateResidualFrom(rs, subscriptions, i + 1, partnerHierarchy, now)
       IN IF monthsActive > rs.residualPeriod THEN rest
          ELSE IF r.result # "ok" THEN [result |-> r.result, dists |-> <<>>]
          ELSE IF rest.result # "ok" THEN rest
          ELSE [result |-> "ok", dists |-> <<distribution>> \o rest.dists]

calculateResidualCommissions(rs, subscriptions, partnerHierarchy, now) ==
  IF ~rs.residualEnabled THEN [result |-> "ok", dists |-> <<>>]
  ELSE calculateResidualFrom(rs, subscriptions, 1, partnerHierarchy, now)

validateCommissionDistribution(distribution) ==
  LET calculatedTotal == SumAmounts(distribution.commissions, "commissionAmount")
                           + SumAmounts(distribution.bonuses, "amount")
      diff == calculatedTotal - distribution.totalCommissionPaid
  IN (IF diff < 0 THEN -diff ELSE diff) < Epsilon

\* ---------------------------------------------- rule-sets and engine inputs
NoCriteria ==
  [personalVolume |-> 0, teamVolume |-> 0, activeDownline |-> 0, timeInBusiness |-> 0,
   certificationRequired |-> {}]

Tier(level, name, criteria, rate, type, minimumVolume, maximumEarnings) ==
  [level |-> level, name |-> name, qualificationCriteria |-> criteria,
   commissionRate |-> rate, commissionType |-> type,
   minimumVolume |-> minimumVolume, maximumEarnings |-> maximumEarnings]

TierBronze == Tier(1, "bronze", NoCriteria, 10, "percentage", 0, 0)
TierSilver ==
  Tier(1, "silver", [NoCriteria EXCEPT !.personalVolume = Money(10000)], 15,
       "percentage", 0, 0)
TierVeteran ==
  Tier(1, "veteran", [NoCriteria EXCEPT !.timeInBusiness = 1], 20, "percentage", 0,
       Money(15000))
TierSecond == Tier(2, "second", NoCriteria, 70, "percentage", Money(10000), 0)
TierFlat == Tier(2, "flat", NoCriteria, Money(700), "fixed", 0, 0)

CapSecond == [maxAmount |-> Money(50000), applicableLevels |-> {2}, applicableToAll |-> FALSE]
\* a cap of 90.005, not a whole number of cents
CapAll == [maxAmount |-> Money(9000) + 1, applicableLevels |-> {}, applicableToAll |-> TRUE]

BonusVolume ==
  [id |-> "volume", eligibilityCriteria |-> NoCriteria,
   trigger |-> [metric |-> "monthly_volume", operator |-> "greater_than",
                value |-> Money(100000), range |-> <<0, 0>>],
   reward |-> [type |-> "fixed_amount", value |-> Money(2500)]]
BonusTeam ==
  [id |-> "team", eligibilityCriteria |-> [NoCriteria EXCEPT !.activeDownline = 1],
   trigger |-> [metric |-> "team_size", operator |-> "between", value |-> 0,
                range |-> <<1, 5>>],
   reward |-> [type |-> "percentage", value |-> 1]]

Products ==
  << [id |-> "basic", commissionEligible |-> TRUE, commissionRates |-> [l \in {} |-> 0]],
     [id |-> "gift", commissionEligible |-> FALSE, commissionRates |-> [l \in {} |-> 0]],
     [id |-> "plan", commissionEligible |-> TRUE,
      commissionRates |-> [l \in {1, 2} |-> IF l = 1 THEN 0 ELSE 50]] >>

RuleSets ==
  { [maxHierarchyLevels |-> 2, tiers |-> <<TierBronze, TierSilver, TierSecond>>,
     bonuses |-> <<>>, caps |-> <<CapSecond>>, products |-> Products,
     residualEnabled |-> FALSE, residualPeriod |-> 0],
    [maxHierarchyLevels |-> 2, tiers |-> <<TierBronze, TierVeteran, TierFlat>>,
     bonuses |-> <<BonusVolume, BonusTeam>>, caps |-> <<>>, products |-> Products,
     residualEnabled |-> TRUE, residualPeriod |-> 1],
    [maxHierarchyLevels |-> 1, tiers |-> <<TierSilver, TierSecond>>,
     bonuses |-> <<BonusTeam>>, caps |-> <<CapSecond, CapAll>>, products |-> Products,
     residualEnabled |-> TRUE, residualPeriod |-> 1] }

Node(id, personalVolume, monthlyVolume, activeDownline, currentMonthEarnings) ==
  [id |-> id, personalVolume |-> personalVolume, teamVolume |-> 0,
   monthlyVolume |-> monthlyVolume, activeDownline |-> activeDownline, joinDate |-> 0,
   currentMonthEarnings |-> currentMonthEarnings, consecutiveActiveMonths |-> 0,
   certifications |-> {}]

Nodes ==
  { Node(1, Money(5000), Money(200000), 2, Money(5000)),
    Node(2, Money(20000), 0, 0, Money(20000)) }

Uplines ==
  {<<>>} \cup {<<a>> : a \in Nodes} \cup {u \in {<<a, b>> : a, b \in Nodes} : u[1] # u[2]}

Transactions ==
  [id : {<<"txn", "t1", 0>>}, amount : {-Money(5000), 0, Money(5000), Money(100000)},
   productId : {"basic", "gift", "plan", "unlisted"}]

Subscription(id, monthlyAmount, productId) ==
  [id |-> id, monthlyAmount |-> monthlyAmount, productId |-> productId, startDate |-> 0]

SubscriptionLists ==
  { <<>>, <<Subscription("s1", Money(10000), "basic")>>,
    <<Subscription("s1", Money(10000), "basic"), Subscription("s2", Money(100000), "plan")>>,
    <<Subscription("s3", 0, "basic")>> }

NoCalc ==
  [op |-> "none", transaction |-> <<>>, subscriptions |-> <<>>, partnerHierarchy |-> <<>>,
   result |-> "", dists |-> <<>>, again |-> FALSE]

\* ------------------------------------------------------------ fraud engine
\* analysis: the analyzePartner call in progress or the last one finished
NoAnalysis ==
  [pc |-> "idle", seq |-> 0, partnerId |-> 0, target |-> <<>>, detected |-> <<>>,
   filteredAlerts |-> <<>>, next |-> 1, result |-> "", before |-> <<>>]

\* Risk scores and thresholds are counted in whole percents.  The
\* referral and activity logs of a partner are held by what the detectors
\* count in them: referrals as [length, recent (last 24 hours), lastMonth,
\* countries, maxConcentration (referrals of the top location), lowActivity,
\* circular (a referral whose referrer is the partner)], activities as
\* [payments, commissionPayments, uniqueMethods, recentChanges, nightTime,
\* logins, uniqueHours].  Evidence and metadata of an alert are left out.
Percent(num, den) == (100 * num) \div den

MapSet(map, key, value) ==
  [k \in DOMAIN map \cup {key} |-> IF k = key THEN value ELSE map[k]]

FraudAlert(partner, alertType, severity, riskScore) ==
  [id |-> <<>>, partnerId |-> partner.id, alertType |-> alertType, severity |-> severity,
   riskScore |-> riskScore, status |-> "open", actions |-> <<>>]

\* Math.max(1, totalReferrals / weeksActive / 7) as a fraction num / den
calculateNormalReferralVelocity(partner) ==
  LET den == 7 * partner.weeksActive
  IN [num |-> IF partner.totalReferrals > den THEN partner.totalReferrals ELSE den,
      den |-> den]

detectReferralVelocityAnomalies(partner, referrals) ==
  LET dailyVelocity == referrals.recent
      normalVelocity == calculateNormalReferralVelocity(partner)
  IN IF dailyVelocity * normalVelocity.den > normalVelocity.num * 5
       THEN << FraudAlert(partner, "referral_velocity",
                 IF dailyVelocity * normalVelocity.den > normalVelocity.num * 10
                   THEN "critical" ELSE "high",
                 MinOf(Percent(dailyVelocity * normalVelocity.den, normalVelocity.num * 10),
                       100)) >>
       ELSE <<>>

detectGeographicAnomalies(partner, referrals) ==
  LET totalReferrals == referrals.length
      maxConcentration == referrals.maxConcentration
  IN IF totalReferrals > 10 /\ 10 * maxConcentration > 8 * totalReferrals
       THEN << FraudAlert(partner, "geographic_concentration",
                 IF 100 * maxConcentration > 95 * totalReferrals THEN "high" ELSE "medium",
                 Percent(maxConcentration, totalReferrals)) >>
       ELSE <<>>

detectPaymentAnomalies(partner, activities) ==
  LET payments == activities.payments + activities.commissionPayments
      recentChanges == activities.recentChanges
      nightTimeTransactions == activities.nightTime
      methodAlerts ==
        IF activities.uniqueMethods > 3 /\ payments > 5 /\ recentChanges > 2
          THEN << FraudAlert(partner, "payment_patterns", "medium",
                    MinOf(Percent(recentChanges, 5), 100)) >>
          ELSE <<>>
      timingAlerts ==
        IF payments > 10 /\ 10 * nightTimeTransactions > 7 * payments
          THEN << FraudAlert(partner, "payment_patterns", "low",
                    Percent(nightTimeTransactions, payments)) >>
          ELSE <<>>
  IN IF payments = 0 THEN <<>> ELSE methodAlerts \o timingAlerts

\* the identity fields compared, and the score of a pair as matches / total
FieldsToCheck == {"email", "phone", "address", "bankAccount", "ipAddress", "userAgent"}

calculatePartnerSimilarity(partner1, partner2) ==
  LET matchingFields == {f \in FieldsToCheck :
                           /\ partner1.identity[f] # ""
                           /\ partner1.identity[f] = partner2.identity[f]}
  IN [matches |-> Cardinality(matchingFields), total |-> Cardinality(FieldsToCheck)]

detectAccountSimilarities(partner, allPartners) ==
  LET similarities ==
        SelectSeq(allPartners,
          LAMBDA otherPartner :
            /\ otherPartner.id # partner.id
            /\ LET similarity == calculatePartnerSimilarity(partner, otherPartner)
               IN 10 * similarity.matches > 8 * similarity.total)
  IN IF Len(similarities) > 0
       THEN << FraudAlert(partner, "account_similarities",
                 IF Len(similarities) > 2 THEN "high" ELSE "medium",
                 MinOf(Percent(Len(similarities), 5), 100)) >>
       ELSE <<>>

detectNetworkManipulation(partner, referrals) ==
  LET circularAlerts ==
        IF referrals.circular
          THEN << FraudAlert(partner, "network_manipulation", "high", 90) >>
          ELSE <<>>
      farmingAlerts ==
        IF referrals.length > 20 /\ 10 * referrals.lowActivity > 8 * referrals.length
          THEN << FraudAlert(partner, "network_manipulation", "medium",
                    Percent(referrals.lowActivity, referrals.length)) >>
          ELSE <<>>
  IN circularAlerts \o farmingAlerts

detectBehavioralAnomalies(partner, activities) ==
  IF activities.logins > 20 /\ activities.uniqueHours < 3
    THEN << FraudAlert(partner, "behavioral_analysis", "medium",
              100 - Percent(activities.uniqueHours, 24)) >>
    ELSE <<>>

calculateRiskMetrics(partner, activities, referrals) ==
  [referralVelocity |-> IF referrals.length = 0 THEN 0
                        ELSE MinOf(Percent(referrals.lastMonth, 30), 100),
   geographicSpread |-> IF referrals.length = 0 THEN 0
                        ELSE MinOf(Percent(referrals.countries, 10), 100),
   paymentPatternScore |-> IF activities.payments = 0 THEN 50
                           ELSE MinOf(Percent(activities.uniqueMethods, 5), 100),
   networkSimilarity |-> 50,
   behavioralScore |-> IF activities.logins = 0 THEN 50
                       ELSE 100 - Percent(activities.uniqueHours, 24),
   identityConfidence |-> IF partner.complianceScore # 0 THEN partner.complianceScore
                          ELSE 50,
   overallRiskScore |-> 50]

\* the first threshold configured for a category: <<>> or <<threshold>>
FindThreshold(ths, alertType) ==
  LET found == {k \in DOMAIN ths : ths[k].metric = alertType}
  IN IF found = {} THEN <<>> ELSE <<ths[CHOOSE k \in found : \A j \in found : k <= j]>>

\* the filter keeping an alert only above its threshold
applyFraudThresholds_Strict(ths, list) ==
  SelectSeq(list,
    LAMBDA alert :
      LET threshold == FindThreshold(ths, alert.alertType)
      IN threshold = <<>> \/ alert.riskScore > threshold[1].threshold)

applyFraudThresholds(ths, list) ==
  SelectSeq(list,
    LAMBDA alert :
      LET threshold == FindThreshold(ths, alert.alertType)
      IN threshold = <<>> \/ alert.riskScore >= threshold[1].threshold)

\* generateAlertId: the k-th alert made by the call numbered seq
generateAlertId(seq, k) == <<seq, k>>

\* the alerts of all detectors in the order analyzePartner collects them
DetectAll(seq, target, allPartners) ==
  LET found == detectReferralVelocityAnomalies(target.partner, target.referrals)
                 \o detectGeographicAnomalies(target.partner, target.referrals)
                 \o detectPaymentAnomalies(target.partner, target.activities)
                 \o detectAccountSimilarities(target.partner, allPartners)
                 \o detectNetworkManipulation(target.partner, target.referrals)
                 \o detectBehavioralAnomalies(target.partner, target.activities)
  IN [k \in DOMAIN found |-> [found[k] EXCEPT !.id = generateAlertId(seq, k)]]

\* the switch of executeAutomatedActions: the actions handed to the executor
InvokesExecutor_Investigate(action) == action \in {"investigate", "suspend", "block"}

InvokesExecutor(action) == action \in {"suspend", "block"}

\* the entry executeAutomatedActions appends to the log of an alert
FraudAction(threshold, now) ==
  [action |-> threshold.action, timestamp |-> now, automated |-> TRUE]

\* ---------------------------------------------------- configuration manager
\* A configuration is a record of sections, each a record of settings.  The
\* sections kept are the ones validateConfiguration reads: business.name and
\* commission.tiers, a tier being its level.  undefined is <<>>, a defined
\* value v is <<v>>.
ConfigOf(name, tiers) ==
  [business |-> [name |-> name], commission |-> [tiers |-> tiers]]

DEFAULT_CONFIG == ConfigOf("default", <<1, 2>>)

\* the settings that hold an array: !== compares arrays by reference
ArrayKeys == {"tiers"}

ValidationRules == <<[field |-> <<"business", "name">>, validator |-> "required"]>>

\* the null of a parsed JSON text among the elements of an array
JsonNull == [isNull |-> TRUE]

MergeSection(target, source) ==
  [key \in DOMAIN target \cup DOMAIN source |->
     IF key \in DOMAIN source THEN source[key] ELSE target[key]]

\* sections are objects and are merged, settings are replaced
deepMerge(target, source) ==
  [key \in DOMAIN target \cup DOMAIN source |->
     IF key \in DOMAIN source
       THEN MergeSection(IF key \in DOMAIN target THEN target[key] ELSE <<>>, source[key])
       ELSE target[key]]

mergeConfigurations(base, updates) == deepMerge(base, updates)

\* the paths of the settings recorded as changed
trackChanges(oldConfig, newConfig) ==
  UNION { { <<section, key>> :
              key \in { k \in DOMAIN newConfig[section] :
                          \/ k \in ArrayKeys
                          \/ section \notin DOMAIN oldConfig
                          \/ k \notin DOMAIN oldConfig[section]
                          \/ oldConfig[section][k] # newConfig[section][k] } } :
          section \in DOMAIN newConfig }

getNestedValue(obj, path) ==
  IF path[1] \in DOMAIN obj /\ path[2] \in DOMAIN obj[path[1]]
    THEN <<obj[path[1]][path[2]]>> ELSE <<>>

validateField(value, rule) ==
  IF rule.validator = "required" THEN value # <<>> /\ value # <<"">> ELSE TRUE

\* the one error of validateBusinessLogic: two tiers of the same level
validateBusinessLogic(cfg) ==
  LET tierLevels == cfg.commission.tiers
  IN Len(tierLevels) = Cardinality({tierLevels[i] : i \in DOMAIN tierLevels})

\* threw: config.commission.tiers read on a configuration without that section
validateConfiguration(cfg) ==
  IF "commission" \notin DOMAIN cfg \/ "tiers" \notin DOMAIN cfg["commission"]
    THEN [threw |-> TRUE, isValid |-> FALSE]
    ELSE [threw |-> FALSE,
          isValid |-> /\ \A r \in DOMAIN ValidationRules :
                           validateField(getNestedValue(cfg, ValidationRules[r].field),
                                         ValidationRules[r])
                      /\ validateBusinessLogic(cfg)]

\* Date.now() and Math.random(): an id no version has had
generateVersionId(seq) == <<"version", seq + 1>>

\* this.configHistory.forEach(v => v.isActive = false), which throws at a null
RECURSIVE DeactivateFrom(_, _)
DeactivateFrom(history, i) ==
  IF i > Len(history) THEN [history |-> history, threw |-> FALSE]
  ELSE IF history[i] = JsonNull THEN [history |-> history, threw |-> TRUE]
  ELSE DeactivateFrom([history EXCEPT ![i].isActive = FALSE], i + 1)

\* this.configHistory.find(v => v.id === versionId)
RECURSIVE FindVersion(_, _, _)
FindVersion(history, versionId, i) ==
  IF i > Len(history) THEN [found |-> <<>>, threw |-> FALSE]
  ELSE IF history[i] = JsonNull THEN [found |-> <<>>, threw |-> TRUE]
  ELSE IF history[i].id = versionId THEN [found |-> <<history[i]>>, threw |-> FALSE]
  ELSE FindVersion(history, versionId, i + 1)

updateConfiguration(m, updates, userId) ==
  LET changes == trackChanges(m.currentConfig, updates)
      newConfig == mergeConfigurations(m.currentConfig, updates)
      validation == validateConfiguration(newConfig)
      version == [id |-> generateVersionId(m.seq),
                  version |-> Len(m.configHistory) + 1,
                  config |-> newConfig, changes |-> changes,
                  appliedBy |-> userId, isActive |-> TRUE]
      d == DeactivateFrom(m.configHistory, 1)
  IN IF validation.threw THEN [manager |-> m, result |-> "TypeError"]
     ELSE IF ~validation.isValid THEN [manager |-> m, result |-> "ValidationFailed"]
     ELSE IF d.threw
       THEN [manager |-> [m EXCEPT !.configHistory = d.history, !.seq = @ + 1],
             result |-> "TypeError"]
     ELSE [manager |-> [m EXCEPT !.configHistory = Append(d.history, version),
                                 !.currentConfig = newConfig, !.seq = @ + 1],
           result |-> "ok"]

\* rollbackToVersion cutting the history back to the target version
rollbackToVersion_Truncate(m, versionId, userId) ==
  LET f == FindVersion(m.configHistory, versionId, 1)
      kept == SelectSeq(m.configHistory,
                        LAMBDA v : v # JsonNull /\ v.version <= f.found[1].version)
  IN IF f.threw THEN [manager |-> m, result |-> "TypeError"]
     ELSE IF f.found = <<>> THEN [manager |-> m, result |-> "VersionNotFound"]
     ELSE [manager |->
             [m EXCEPT !.configHistory =
                         [i \in DOMAIN kept |->
                            [kept[i] EXCEPT !.isActive = (i = Len(kept))]],
                       !.currentConfig = f.found[1].config],
           result |-> "ok"]

rollbackToVersion(m, versionId, userId) ==
  LET f == FindVersion(m.configHistory, versionId, 1)
      rollbackVersion == [id |-> generateVersionId(m.seq),
                          version |-> Len(m.configHistory) + 1,
                          config |-> f.found[1].config, changes |-> {<<"system">>},
                          appliedBy |-> userId, isActive |-> TRUE]
      d == DeactivateFrom(m.configHistory, 1)
  IN IF f.threw THEN [manager |-> m, result |-> "TypeError"]
     ELSE IF f.found = <<>> THEN [manager |-> m, result |-> "VersionNotFound"]
     ELSE IF d.threw
       THEN [manager |-> [m EXCEPT !.configHistory = d.history, !.seq = @ + 1],
             result |-> "TypeError"]
     ELSE [manager |-> [m EXCEPT !.configHistory = Append(d.history, rollbackVersion),
                                 !.currentConfig = f.found[1].config, !.seq = @ + 1],
           result |-> "ok"]

\* exportedData: <<>> when JSON.parse throws, <<data>> otherwise; data.current
\* and data.history are <<>> when absent
importConfiguration(m, exportedData, userId, overwriteHistory) ==
  LET data == exportedData[1]
      validation == validateConfiguration(data.current[1])
      m1 == IF overwriteHistory /\ data.history # <<>>
              THEN [m EXCEPT !.configHistory = data.history[1]] ELSE m
      r == updateConfiguration(m1, data.current[1], userId)
  IN IF exportedData = <<>> THEN [manager |-> m, result |-> "ImportFailed"]
     ELSE IF data.current = <<>> THEN [manager |-> m, result |-> "ImportFailed"]
     ELSE IF validation.threw \/ ~validation.isValid
       THEN [manager |-> m, result |-> "ImportFailed"]
     ELSE IF r.result # "ok" THEN [manager |-> r.manager, result |-> "ImportFailed"]
     ELSE r

\* new ConfigurationManager(initialConfig)
NewManager(initialConfig) ==
  [currentConfig |-> initialConfig, configHistory |-> <<>>, seq |-> 0]

IdleManager == NewManager(DEFAULT_CONFIG)
NoConfigCall == [op |-> "none", result |-> "", n |-> 0, imported |-> FALSE]

\* One call of the manager: its writes, its outcome.  A call whose ancestor
\* walk never returns leaves the store as the walk's first hops made it and
\* the caller waiting: hung.
Commit(r, call) ==
  /\ calls < MaxCalls
  /\ calls' = calls + 1
  /\ partners' = r.store
  /\ hung' = (r.result = "diverged")
  /\ lastCall' = [call EXCEPT !.result = r.result]
  /\ UNCHANGED <<config, cvars, pvars, query, fvars, mvars>>

NextId(s) == Cardinality(DOMAIN s) + 1

AddPartner(sponsorId) ==
  /\ ~hung
  /\ NextId(partners) <= MaxPartners
  /\ LET newId == NextId(partners)
         r == addPartner(partners, config, newId, NoData, sponsorId)
         done == [store |-> IF r.result = "ok"
                              THEN insertPartner(r.store, newId, r.partner[1])
                              ELSE r.store,
                  result |-> r.result]
     IN Commit(done, [op |-> "addPartner", p |-> newId, q |-> sponsorId, n |-> 0, result |-> ""])

MovePartner(partnerId, newSponsorId) ==
  /\ ~hung
  /\ Commit(movePartner(partners, config, partnerId, newSponsorId),
            [op |-> "movePartner", p |-> partnerId, q |-> newSponsorId, n |-> 0,
             result |-> ""])

DeactivatePartner(partnerId, redistribute) ==
  /\ ~hung
  /\ Commit(deactivatePartner(partners, config, partnerId, redistribute),
            [op |-> "deactivatePartner", p |-> partnerId,
             q |-> IF redistribute THEN 1 ELSE 0,
             n |-> Cardinality(getDirectDownline(partners, partnerId)),
             result |-> ""])

\* lastCall: the operation, its arguments p and q (redistribute as 1 or 0),
\* the number n of direct children the partner had, and the outcome
NoCall == [op |-> "none", p |-> 0, q |-> 0, n |-> 0, result |-> ""]

\* ---------------------------------------------------------------- workers
\* Requests are served by several workers; each call of a worker proceeds in
\* steps, one store access (or one run of accesses) at a time.
Procs == 1..NumWorkers

IdleProc ==
  [op |-> "none", pc |-> "idle", partnerId |-> 0, arg |-> 0, delta |-> 0, cur |-> 0,
   snap |-> <<>>, oldSponsorId |-> 0, newLevel |-> 0, newSponsorPath |-> <<>>,
   result |-> ""]
IdleProcs == [pr \in Procs |-> IdleProc]

\* query: the last read call, its argument p and what it returned
NoQuery == [op |-> "none", p |-> 0, maxLevels |-> 0, activeOnly |-> FALSE, out |-> <<>>,
            isValid |-> TRUE, errors |-> <<>>, warnings |-> <<>>]

IdleConfig == [maxHierarchyLevels |-> DefaultMaxLevels, autoActivation |-> TRUE]
IdleRules == CHOOSE rs \in RuleSets : rs.bonuses = <<>>

\* the commission engine is not driven by this specification
Init ==
  /\ partners = <<>>
  /\ config \in [maxHierarchyLevels : ConfigLevels, autoActivation : BOOLEAN]
  /\ lastCall = NoCall
  /\ hung = FALSE
  /\ calls = 0
  /\ rules = IdleRules
  /\ clock = 0
  /\ calc = NoCalc
  /\ prevDists = <<>>
  /\ procs = IdleProcs
  /\ interleaved = FALSE
  /\ query = NoQuery
  /\ thresholds = <<>>
  /\ alerts = <<>>
  /\ riskProfiles = <<>>
  /\ executed = <<>>
  /\ analysis = NoAnalysis
  /\ manager = IdleManager
  /\ configCall = NoConfigCall

Next ==
  \/ \E sponsorId \in PartnerIds \cup {NoSponsor} : AddPartner(sponsorId)
  \/ \E partnerId \in PartnerIds, newSponsorId \in PartnerIds :
       MovePartner(partnerId, newSponsorId)
  \/ \E partnerId \in PartnerIds, redistribute \in BOOLEAN :
       DeactivatePartner(partnerId, redistribute)

Spec == Init /\ [][Next]_vars

\* ------------------------------------------------- commission engine calls
\* The engine holds the rule-set only; calc records the last call and its
\* outcome, prevDists the outcome of the call before when the last call
\* repeated it (again).
CalculateCommissions(transaction, partnerHierarchy) ==
  /\ LET r == calculateCommissions(rules, transaction, partnerHierarchy, clock)
     IN calc' = [op |-> "calculateCommissions", transaction |-> transaction,
                 subscriptions |-> <<>>, partnerHierarchy |-> partnerHierarchy,
                 result |-> r.result, dists |-> r.dist, again |-> FALSE]
  /\ prevDists' = <<>>
  /\ UNCHANGED <<rules, clock, hvars, pvars, query, fvars, mvars>>

CalculateResidualCommissions(subscriptions, partnerHierarchy) ==
  /\ LET r == calculateResidualCommissions(rules, subscriptions, partnerHierarchy, clock)
     IN calc' = [op |-> "calculateResidualCommissions", transaction |-> <<>>,
                 subscriptions |-> subscriptions, partnerHierarchy |-> partnerHierarchy,
                 result |-> r.result, dists |-> r.dists, again |-> FALSE]
  /\ prevDists' = <<>>
  /\ UNCHANGED <<rules, clock, hvars, pvars, query, fvars, mvars>>

\* the caller repeats its last calculateCommissions call with the same arguments
CalculateAgain ==
  /\ calc.op = "calculateCommissions"
  /\ LET r == calculateCommissions(rules, calc.transaction, calc.partnerHierarchy, clock)
     IN calc' = [calc EXCEPT !.result = r.result, !.dists = r.dist, !.again = TRUE]
  /\ prevDists' = <<[result |-> calc.result, dists |-> calc.dists]>>
  /\ UNCHANGED <<rules, clock, hvars, pvars, query, fvars, mvars>>

Tick ==
  /\ clock < MaxClock
  /\ clock' = clock + 1
  /\ UNCHANGED <<rules, calc, prevDists, hvars, pvars, query, fvars, mvars>>

\* the hierarchy manager is not driven by this specification
CInit ==
  /\ rules \in RuleSets
  /\ clock = 0
  /\ calc = NoCalc
  /\ prevDists = <<>>
  /\ partners = <<>>
  /\ config = IdleConfig
  /\ lastCall = NoCall
  /\ hung = FALSE
  /\ calls = 0
  /\ procs = IdleProcs
  /\ interleaved = FALSE
  /\ query = NoQuery
  /\ thresholds = <<>>
  /\ alerts = <<>>
  /\ riskProfiles = <<>>
  /\ executed = <<>>
  /\ analysis = NoAnalysis
  /\ manager = IdleManager
  /\ configCall = NoConfigCall

CNext ==
  \/ \E transaction \in Transactions, partnerHierarchy \in Uplines :
       CalculateCommissions(transaction, partnerHierarchy)
  \/ \E subscriptions \in SubscriptionLists, partnerHierarchy \in Uplines :
       CalculateResidualCommissions(subscriptions, partnerHierarchy)
  \/ CalculateAgain
  \/ Tick

SpecCommission == CInit /\ [][CNext]_vars

\* ------------------------------------------- concurrent updatePartnerMetrics
\* a store as addPartner calls leave it: each entry of sponsors is the
\* sponsor given to the next call
RECURSIVE Enrolled(_, _)
Enrolled(cfg, sponsors) ==
  IF sponsors = <<>> THEN <<>>
  ELSE LET s == Enrolled(cfg, SubSeq(sponsors, 1, Len(sponsors) - 1))
           newId == NextId(s)
           r == addPartner(s, cfg, newId, NoData, sponsors[Len(sponsors)])
       IN insertPartner(r.store, newId, r.partner[1])

Step(pr, next) ==
  /\ procs' = [procs EXCEPT ![pr] = next]
  /\ interleaved' = interleaved
  /\ UNCHANGED <<config, lastCall, hung, calls, cvars, query, fvars, mvars>>

\* updatePartnerMetrics(partnerId, {teamVolume}) is called
MetricsCall(pr, partnerId, teamVolume) ==
  /\ procs[pr].pc = "idle"
  /\ Step(pr, [IdleProc EXCEPT !.op = "updatePartnerMetrics", !.pc = "getPartner",
                                !.partnerId = partnerId, !.arg = teamVolume])
  /\ UNCHANGED partners

\* const partner = await this.getPartner(partnerId), up to the first hop
MetricsGetPartner(pr) ==
  LET me == procs[pr] IN
  /\ me.op = "updatePartnerMetrics" /\ me.pc = "getPartner"
  /\ Step(pr,
       IF ~Found(partners, me.partnerId)
         THEN [me EXCEPT !.pc = "done", !.result = "PartnerNotFound"]
       ELSE IF me.arg # partners[me.partnerId].teamVolume
         THEN [me EXCEPT !.pc = "propagate",
                         !.delta = me.arg - partners[me.partnerId].teamVolume,
                         !.cur = partners[me.partnerId].sponsorId]
       ELSE [me EXCEPT !.pc = "done", !.result = "ok"])
  /\ UNCHANGED partners

\* propagateVolumeUpdate: const sponsor = await this.getPartner(sponsorId)
PropagateRead(pr) ==
  LET me == procs[pr] IN
  /\ me.op = "updatePartnerMetrics" /\ me.pc = "propagate"
  /\ Step(pr,
       IF me.cur = NoSponsor \/ ~Found(partners, me.cur)
         THEN [me EXCEPT !.pc = "done", !.result = "ok"]
         ELSE [me EXCEPT !.pc = "write", !.snap = <<partners[me.cur]>>])
  /\ UNCHANGED partners

\* propagateVolumeUpdate: await this.updatePartner(sponsorId, {teamVolume: ...})
PropagateWrite(pr) ==
  LET me == procs[pr] IN
  /\ me.op = "updatePartnerMetrics" /\ me.pc = "write"
  /\ partners' = updatePartner(partners, me.cur,
                   [teamVolume |-> me.snap[1].teamVolume + me.delta])
  /\ Step(pr, [me EXCEPT !.pc = "propagate", !.cur = me.snap[1].sponsorId,
                         !.snap = <<>>])

MetricsSeeds == {<<NoSponsor, 1, 1, 2>>, <<NoSponsor, 1, 2, 2>>}

MetricsInit ==
  /\ partners \in {Enrolled(IdleConfig, sponsors) : sponsors \in MetricsSeeds}
  /\ config = IdleConfig
  /\ lastCall = NoCall
  /\ hung = FALSE
  /\ calls = 0
  /\ rules = IdleRules
  /\ clock = 0
  /\ calc = NoCalc
  /\ prevDists = <<>>
  /\ procs = IdleProcs
  /\ interleaved = FALSE
  /\ query = NoQuery
  /\ thresholds = <<>>
  /\ alerts = <<>>
  /\ riskProfiles = <<>>
  /\ executed = <<>>
  /\ analysis = NoAnalysis
  /\ manager = IdleManager
  /\ configCall = NoConfigCall

MetricsNext ==
  \/ \E pr \in Procs, partnerId \in PartnerIds, teamVolume \in 0..MaxVolume :
       MetricsCall(pr, partnerId, teamVolume)
  \/ \E pr \in Procs : MetricsGetPartner(pr)
  \/ \E pr \in Procs : PropagateRead(pr)
  \/ \E pr \in Procs : PropagateWrite(pr)

SpecMetrics == MetricsInit /\ [][MetricsNext]_vars

\* ------------------------------------------------------- hierarchy claims
Ids == DOMAIN partners

\* the chain of sponsors of p, following sponsorId links, root first
RECURSIVE SponsorChain(_, _, _)
SponsorChain(s, p, fuel) ==
  IF s[p].sponsorId = NoSponsor \/ ~Found(s, s[p].sponsorId) \/ fuel = 0 THEN <<>>
  ELSE Append(SponsorChain(s, s[p].sponsorId, fuel - 1), s[p].sponsorId)

Ancestors(s, p) ==
  LET chain == SponsorChain(s, p, HopLimit(s)) IN {chain[i] : i \in DOMAIN chain}

\* q is transitively sponsored by p
IsDescendant(s, q, p) == p \in Ancestors(s, q)

\* ---------------------------------------------------- concurrent movePartner
\* the partners a move of partnerId under newSponsorId reads or writes: the
\* moved subtree and the sponsor chains of its old and its new place
Touched(s, partnerId, newSponsorId) ==
  IF ~Found(s, partnerId) \/ ~Found(s, newSponsorId) THEN {}
  ELSE {partnerId, newSponsorId} \cup Ancestors(s, partnerId)
         \cup Ancestors(s, newSponsorId)
         \cup {q \in DOMAIN s : IsDescendant(s, q, partnerId)}

InFlight(me) == me.op = "movePartner" /\ me.pc \in {"write", "counts", "downline"}

\* a step of pr falls between two steps of another move on overlapping partners
Interleaves(pr) ==
  \E other \in Procs \ {pr} :
    /\ InFlight(procs[other])
    /\ Touched(partners, procs[pr].partnerId, procs[pr].arg)
         \cap Touched(partners, procs[other].partnerId, procs[other].arg) # {}

MoveStep(pr, next) ==
  /\ procs' = [procs EXCEPT ![pr] = next]
  /\ interleaved' = (interleaved \/ Interleaves(pr))
  /\ UNCHANGED <<config, lastCall, hung, calls, cvars, query, fvars, mvars>>

\* movePartner(partnerId, newSponsorId) is called
MoveCall(pr, partnerId, newSponsorId) ==
  /\ procs[pr].pc = "idle"
  /\ procs' = [procs EXCEPT ![pr] =
                 [IdleProc EXCEPT !.op = "movePartner", !.pc = "check",
                                  !.partnerId = partnerId, !.arg = newSponsorId]]
  /\ UNCHANGED <<partners, interleaved, config, lastCall, hung, calls, cvars, query, fvars, mvars>>

\* the reads and the checks before the first write
MoveCheck(pr) ==
  LET me == procs[pr] IN
  /\ me.op = "movePartner" /\ me.pc = "check"
  /\ MoveStep(pr,
       IF ~Found(partners, me.partnerId)
         THEN [me EXCEPT !.pc = "done", !.result = "PartnerNotFound"]
       ELSE IF ~Found(partners, me.arg)
         THEN [me EXCEPT !.pc = "done", !.result = "SponsorNotFound"]
       ELSE IF \E i \in DOMAIN getDownlineHierarchy(partners, me.partnerId,
                                                    DefaultMaxLevels, TRUE) :
                 getDownlineHierarchy(partners, me.partnerId,
                                      DefaultMaxLevels, TRUE)[i] = me.arg
         THEN [me EXCEPT !.pc = "done", !.result = "SelfCycle"]
       ELSE IF partners[me.arg].level + 1 > config.maxHierarchyLevels
         THEN [me EXCEPT !.pc = "done", !.result = "DepthExceeded"]
       ELSE [me EXCEPT !.pc = "write",
                       !.oldSponsorId = partners[me.partnerId].sponsorId,
                       !.newLevel = partners[me.arg].level + 1])
  /\ UNCHANGED partners

\* buildSponsorPath(newSponsorId) and the write of the moved partner
MoveWrite(pr) ==
  LET me == procs[pr]
      newSponsorPath == buildSponsorPath(partners, me.arg)
  IN
  /\ me.op = "movePartner" /\ me.pc = "write"
  /\ partners' = updatePartner(partners, me.partnerId,
                   [sponsorId |-> me.arg, sponsorPath |-> newSponsorPath,
                    level |-> me.newLevel])
  /\ MoveStep(pr, [me EXCEPT !.pc = "counts", !.newSponsorPath = newSponsorPath])

\* the two counter walks; a walk on a sponsor cycle never returns
MoveCounts(pr) ==
  LET me == procs[pr]
      r2 == IF me.oldSponsorId # NoSponsor
              THEN updateSponsorDownlineCounts(partners, me.oldSponsorId, -1)
              ELSE [store |-> partners, done |-> TRUE]
      r3 == IF r2.done THEN updateSponsorDownlineCounts(r2.store, me.arg, 1) ELSE r2
  IN
  /\ me.op = "movePartner" /\ me.pc = "counts"
  /\ partners' = r3.store
  /\ MoveStep(pr, [me EXCEPT !.pc = IF r3.done THEN "downline" ELSE "hung"])

\* the rewrite of the moved partner's descendants
MoveDownline(pr) ==
  LET me == procs[pr]
      r4 == updateDownlineLevelsAndPaths(partners, me.partnerId, me.newLevel,
              me.newSponsorPath \o <<SEP, me.partnerId>>, HopLimit(partners))
  IN
  /\ me.op = "movePartner" /\ me.pc = "downline"
  /\ partners' = r4.store
  /\ MoveStep(pr, IF r4.done THEN [me EXCEPT !.pc = "done", !.result = "ok"]
                  ELSE [me EXCEPT !.pc = "hung"])

MoveSeeds == {<<NoSponsor, NoSponsor, NoSponsor>>, <<NoSponsor, NoSponsor, 1>>,
              <<NoSponsor, 1, 2>>}

MovesInit ==
  /\ partners \in {Enrolled(IdleConfig, sponsors) : sponsors \in MoveSeeds}
  /\ config = IdleConfig
  /\ lastCall = NoCall
  /\ hung = FALSE
  /\ calls = 0
  /\ rules = IdleRules
  /\ clock = 0
  /\ calc = NoCalc
  /\ prevDists = <<>>
  /\ procs = IdleProcs
  /\ interleaved = FALSE
  /\ query = NoQuery
  /\ thresholds = <<>>
  /\ alerts = <<>>
  /\ riskProfiles = <<>>
  /\ executed = <<>>
  /\ analysis = NoAnalysis
  /\ manager = IdleManager
  /\ configCall = NoConfigCall

MovesNext ==
  \/ \E pr \in Procs, partnerId \in PartnerIds, newSponsorId \in PartnerIds :
       MoveCall(pr, partnerId, newSponsorId)
  \/ \E pr \in Procs : MoveCheck(pr)
  \/ \E pr \in Procs : MoveWrite(pr)
  \/ \E pr \in Procs : MoveCounts(pr)
  \/ \E pr \in Procs : MoveDownline(pr)

SpecMoves == MovesInit /\ [][MovesNext]_vars

\* ---------------------------------------------- a read alongside a move
\* One movePartner call, stepping as above, and getDownlineHierarchy calls
\* of other workers, each with its two store reads.
\* movePartner is called; snap keeps the store as the call found it
MoveBegin(pr, partnerId, newSponsorId) ==
  /\ procs[pr].pc = "idle"
  /\ \A other \in Procs : procs[other].op # "movePartner"
  /\ procs' = [procs EXCEPT ![pr] =
                 [IdleProc EXCEPT !.op = "movePartner", !.pc = "check",
                                  !.partnerId = partnerId, !.arg = newSponsorId,
                                  !.snap = partners]]
  /\ UNCHANGED <<partners, interleaved, config, lastCall, hung, calls, cvars, query, fvars, mvars>>

\* getDownlineHierarchy(partnerId) is called, with the default arguments
DownlineCall(pr, partnerId) ==
  /\ procs[pr].pc = "idle"
  /\ procs' = [procs EXCEPT ![pr] =
                 [IdleProc EXCEPT !.op = "getDownlineHierarchy", !.pc = "getPartner",
                                  !.partnerId = partnerId]]
  /\ UNCHANGED <<partners, interleaved, config, lastCall, hung, calls, cvars, query, fvars, mvars>>

\* lines 178-183: the partner is read
DownlineGetPartner(pr) ==
  LET me == procs[pr] IN
  /\ me.op = "getDownlineHierarchy" /\ me.pc = "getPartner"
  /\ IF ~Found(partners, me.partnerId)
       THEN /\ procs' = [procs EXCEPT ![pr] = [me EXCEPT !.pc = "done", !.result = "ok"]]
            /\ query' = [NoQuery EXCEPT !.op = "getDownlineHierarchy", !.p = me.partnerId]
       ELSE /\ procs' = [procs EXCEPT ![pr] =
                           [me EXCEPT !.pc = "getAllPartners",
                                      !.snap = <<partners[me.partnerId]>>]]
            /\ UNCHANGED query
  /\ UNCHANGED <<partners, interleaved, config, lastCall, hung, calls, cvars, fvars, mvars>>

\* the partners getDownlineHierarchy returns from a store, as records
DownlineOf(s, partnerId) ==
  LET ids == getDownlineHierarchy(s, partnerId, DefaultMaxLevels, TRUE)
  IN [i \in DOMAIN ids |-> s[ids[i]]]

\* lines 186-205: all partners are read, filtered against the partner read
\* before, and sorted
DownlineGetAll(pr) ==
  LET me == procs[pr] IN
  /\ me.op = "getDownlineHierarchy" /\ me.pc = "getAllPartners"
  /\ procs' = [procs EXCEPT ![pr] = [me EXCEPT !.pc = "done", !.result = "ok"]]
  /\ query' = [NoQuery EXCEPT
                 !.op = "getDownlineHierarchy", !.p = me.partnerId,
                 !.out = DownlineOf([partners EXCEPT ![me.partnerId] = me.snap[1]],
                                    me.partnerId)]
  /\ UNCHANGED <<partners, interleaved, config, lastCall, hung, calls, cvars, fvars, mvars>>

ReadsInit ==
  /\ partners \in {Enrolled(IdleConfig, sponsors) : sponsors \in MoveSeeds}
  /\ config = IdleConfig
  /\ lastCall = NoCall
  /\ hung = FALSE
  /\ calls = 0
  /\ rules = IdleRules
  /\ clock = 0
  /\ calc = NoCalc
  /\ prevDists = <<>>
  /\ procs = IdleProcs
  /\ interleaved = FALSE
  /\ query = NoQuery
  /\ thresholds = <<>>
  /\ alerts = <<>>
  /\ riskProfiles = <<>>
  /\ executed = <<>>
  /\ analysis = NoAnalysis
  /\ manager = IdleManager
  /\ configCall = NoConfigCall

ReadsNext ==
  \/ \E pr \in Procs, partnerId \in PartnerIds, newSponsorId \in PartnerIds :
       MoveBegin(pr, partnerId, newSponsorId)
  \/ \E pr \in Procs : MoveCheck(pr)
  \/ \E pr \in Procs : MoveWrite(pr)
  \/ \E pr \in Procs : MoveCounts(pr)
  \/ \E pr \in Procs : MoveDownline(pr)
  \/ \E pr \in Procs, partnerId \in PartnerIds : DownlineCall(pr, partnerId)
  \/ \E pr \in Procs : DownlineGetPartner(pr)
  \/ \E pr \in Procs : DownlineGetAll(pr)

SpecReads == ReadsInit /\ [][ReadsNext]_vars

\* ------------------------------------------------- reads and single calls
\* The store is the persistence layer's; validateHierarchy examines whatever
\* it holds.  StoredHierarchies are hierarchies as addPartner calls leave
\* them and the same with one field of one record overwritten.
CallSeeds == {<<NoSponsor, 1, 2>>, <<NoSponsor, 1, 1>>, <<NoSponsor, NoSponsor, 1>>}

Overwrites ==
  {[sponsorId |-> q] : q \in 1..MaxPartners}
    \cup {[level |-> l] : l \in {1, DefaultMaxLevels}}
    \cup {[sponsorPath |-> <<1>>]}

StoredHierarchies ==
  {Enrolled(IdleConfig, sponsors) : sponsors \in CallSeeds}
    \cup {updatePartner(Enrolled(IdleConfig, sponsors), p, o) :
            sponsors \in CallSeeds, p \in 1..3, o \in Overwrites}

PartnerDatas == {NoData, [level |-> 1], [teamVolume |-> MaxVolume]}

MetricsInputs == {NoData} \cup {[teamVolume |-> v] : v \in 0..MaxVolume}

GetUplineHierarchy(partnerId) ==
  /\ ~hung
  /\ query' = [NoQuery EXCEPT !.op = "getUplineHierarchy", !.p = partnerId,
                              !.out = getUplineHierarchy(partners, partnerId)]
  /\ UNCHANGED <<hvars, cvars, pvars, fvars, mvars>>

ValidateHierarchy ==
  /\ ~hung
  /\ LET r == validateHierarchy(partners, config)
     IN query' = [NoQuery EXCEPT !.op = "validateHierarchy", !.isValid = r.isValid,
                                 !.errors = r.errors, !.warnings = r.warnings]
  /\ UNCHANGED <<hvars, cvars, pvars, fvars, mvars>>

CallsInit ==
  /\ partners \in StoredHierarchies
  /\ config \in [maxHierarchyLevels : ConfigLevels, autoActivation : {TRUE}]
  /\ lastCall = NoCall
  /\ hung = FALSE
  /\ calls = 0
  /\ rules = IdleRules
  /\ clock = 0
  /\ calc = NoCalc
  /\ prevDists = <<>>
  /\ procs = IdleProcs
  /\ interleaved = FALSE
  /\ query = NoQuery
  /\ thresholds = <<>>
  /\ alerts = <<>>
  /\ riskProfiles = <<>>
  /\ executed = <<>>
  /\ analysis = NoAnalysis
  /\ manager = IdleManager
  /\ configCall = NoConfigCall

CallsNext ==
  \/ \E partnerId \in PartnerIds : GetUplineHierarchy(partnerId)
  \/ ValidateHierarchy

SpecCalls == CallsInit /\ [][CallsNext]_vars

\* ------------------------------------------- metrics updates and enrolment
\* lastCall.q is the teamVolume of metrics, -1 when metrics has none
UpdatePartnerMetrics(partnerId, metrics) ==
  /\ ~hung
  /\ calls < MaxServiceCalls
  /\ Commit(updatePartnerMetrics(partners, partnerId, metrics),
            [op |-> "updatePartnerMetrics", p |-> partnerId,
             q |-> IF "teamVolume" \in DOMAIN metrics THEN metrics.teamVolume ELSE -1,
             n |-> 0, result |-> ""])

AddPartnerWith(partnerData, sponsorId) ==
  /\ ~hung
  /\ calls < MaxServiceCalls
  /\ NextId(partners) <= MaxPartners
  /\ LET newId == NextId(partners)
         r == addPartner(partners, config, newId, partnerData, sponsorId)
         done == [store |-> IF r.result = "ok"
                              THEN insertPartner(r.store, newId, r.partner[1])
                              ELSE r.store,
                  result |-> r.result]
     IN Commit(done, [op |-> "addPartner", p |-> newId, q |-> sponsorId, n |-> 0,
                      result |-> ""])

UpdatesInit ==
  /\ partners \in {Enrolled(IdleConfig, sponsors) : sponsors \in CallSeeds}
  /\ config \in [maxHierarchyLevels : ConfigLevels, autoActivation : BOOLEAN]
  /\ lastCall = NoCall
  /\ hung = FALSE
  /\ calls = 0
  /\ rules = IdleRules
  /\ clock = 0
  /\ calc = NoCalc
  /\ prevDists = <<>>
  /\ procs = IdleProcs
  /\ interleaved = FALSE
  /\ query = NoQuery
  /\ thresholds = <<>>
  /\ alerts = <<>>
  /\ riskProfiles = <<>>
  /\ executed = <<>>
  /\ analysis = NoAnalysis
  /\ manager = IdleManager
  /\ configCall = NoConfigCall

UpdatesNext ==
  \/ \E partnerId \in PartnerIds, metrics \in MetricsInputs :
       UpdatePartnerMetrics(partnerId, metrics)
  \/ \E partnerData \in PartnerDatas, sponsorId \in PartnerIds \cup {NoSponsor} :
       AddPartnerWith(partnerData, sponsorId)

SpecUpdates == UpdatesInit /\ [][UpdatesNext]_vars

\* ------------------------------------------------- reorganisation calls
\* moves and deactivations in a hierarchy that addPartner calls have built
ReorgSeeds == {<<NoSponsor, 1, NoSponsor, NoSponsor>>, <<NoSponsor, 1, 1, NoSponsor>>}

ReorgInit ==
  /\ config \in [maxHierarchyLevels : ConfigLevels, autoActivation : {TRUE}]
  /\ partners \in {Enrolled(config, sponsors) : sponsors \in ReorgSeeds}
  /\ lastCall = NoCall
  /\ hung = FALSE
  /\ calls = 0
  /\ rules = IdleRules
  /\ clock = 0
  /\ calc = NoCalc
  /\ prevDists = <<>>
  /\ procs = IdleProcs
  /\ interleaved = FALSE
  /\ query = NoQuery
  /\ thresholds = <<>>
  /\ alerts = <<>>
  /\ riskProfiles = <<>>
  /\ executed = <<>>
  /\ analysis = NoAnalysis
  /\ manager = IdleManager
  /\ configCall = NoConfigCall

ReorgNext ==
  \/ \E partnerId \in PartnerIds, newSponsorId \in PartnerIds :
       calls < MaxReorgCalls /\ MovePartner(partnerId, newSponsorId)
  \/ \E partnerId \in PartnerIds, redistribute \in BOOLEAN :
       calls < MaxReorgCalls /\ DeactivatePartner(partnerId, redistribute)

SpecReorg == ReorgInit /\ [][ReorgNext]_vars

\* ------------------------------------------------- fraud engine: one caller
\* analyzePartner proceeds in steps, each ending where the code awaits: the
\* three log queries, the query of all partners, and the action executor.
MaxAnalyses == 2
MaxConfigCalls == 4

Identity(tag, bankAccount) ==
  [f \in FieldsToCheck |-> IF f = "bankAccount" THEN bankAccount ELSE tag]

StoredPartner(id, identity, totalReferrals, weeksActive, complianceScore) ==
  [id |-> id, identity |-> identity, totalReferrals |-> totalReferrals,
   weeksActive |-> weeksActive, complianceScore |-> complianceScore]

FraudPartners ==
  << StoredPartner(1, Identity("a", "x"), 20, 4, 0),
     StoredPartner(2, Identity("a", "y"), 25, 4, 80),
     StoredPartner(3, Identity("b", "z"), 0, 1, 0) >>

NoReferrals ==
  [length |-> 0, recent |-> 0, lastMonth |-> 0, countries |-> 0, maxConcentration |-> 0,
   lowActivity |-> 0, circular |-> FALSE]
NoActivities ==
  [payments |-> 0, commissionPayments |-> 0, uniqueMethods |-> 0, recentChanges |-> 0,
   nightTime |-> 0, logins |-> 0, uniqueHours |-> 0]

\* what the queries of a partner's record and logs may return
Targets ==
  { [partner |-> FraudPartners[3], referrals |-> NoReferrals, activities |-> NoActivities],
    [partner |-> FraudPartners[1],
     referrals |-> [length |-> 20, recent |-> 8, lastMonth |-> 15, countries |-> 2,
                    maxConcentration |-> 17, lowActivity |-> 4, circular |-> FALSE],
     activities |-> [payments |-> 8, commissionPayments |-> 4, uniqueMethods |-> 4,
                     recentChanges |-> 3, nightTime |-> 9, logins |-> 5,
                     uniqueHours |-> 4]],
    [partner |-> FraudPartners[2],
     referrals |-> [length |-> 25, recent |-> 12, lastMonth |-> 25, countries |-> 1,
                    maxConcentration |-> 25, lowActivity |-> 25, circular |-> TRUE],
     activities |-> [payments |-> 0, commissionPayments |-> 0, uniqueMethods |-> 0,
                     recentChanges |-> 0, nightTime |-> 0, logins |-> 30,
                     uniqueHours |-> 2]] }

FraudThreshold(metric, threshold, action, severity) ==
  [metric |-> metric, threshold |-> threshold, timeWindow |-> 24, action |-> action,
   severity |-> severity]

ThresholdLists ==
  { <<>>,
    << FraudThreshold("referral_velocity", 80, "suspend", "high"),
       FraudThreshold("geographic_concentration", 90, "investigate", "medium"),
       FraudThreshold("payment_patterns", 70, "flag", "low") >>,
    << FraudThreshold("account_similarities", 20, "block", "high"),
       FraudThreshold("referral_velocity", 100, "investigate", "critical"),
       FraudThreshold("referral_velocity", 50, "suspend", "high") >> }

\* the call ends: it returns the filtered alerts or throws
Finish(result) == [analysis EXCEPT !.pc = "done", !.result = result]

\* lines 78-92: the three queries, the not-found check, the risk profile
AnalyzePartner(partnerId, queries) ==
  /\ analysis.pc \in {"idle", "done"}
  /\ analysis.seq < MaxAnalyses
  /\ LET started == [NoAnalysis EXCEPT !.seq = analysis.seq + 1, !.partnerId = partnerId,
                                       !.before = <<[riskProfiles |-> riskProfiles,
                                                     alerts |-> alerts]>>]
         found == {t \in Targets : t.partner.id = partnerId}
     IN IF queries = "fail"
          THEN /\ analysis' = [started EXCEPT !.pc = "done", !.result = "QueryFailed"]
               /\ UNCHANGED riskProfiles
        ELSE IF found = {}
          THEN /\ analysis' = [started EXCEPT !.pc = "done", !.result = "PartnerNotFound"]
               /\ UNCHANGED riskProfiles
        ELSE \E target \in found :
               /\ riskProfiles' =
                    MapSet(riskProfiles, partnerId,
                           calculateRiskMetrics(target.partner, target.activities,
                                                target.referrals))
               /\ analysis' = [started EXCEPT !.pc = "similarities", !.target = <<target>>]
  /\ UNCHANGED <<thresholds, alerts, executed, hvars, cvars, pvars, query, mvars>>

\* lines 95-111: the detectors, one of them querying all partners, and the
\* threshold filter
DetectAlerts(query_) ==
  /\ analysis.pc = "similarities"
  /\ IF query_ = "fail"
       THEN analysis' = Finish("QueryFailed")
       ELSE LET detected == DetectAll(analysis.seq, analysis.target[1], FraudPartners)
                filteredAlerts == applyFraudThresholds(thresholds, detected)
            IN analysis' = [analysis EXCEPT
                              !.detected = detected,
                              !.filteredAlerts = filteredAlerts,
                              !.pc = IF filteredAlerts = <<>> THEN "done" ELSE "actions",
                              !.result = IF filteredAlerts = <<>> THEN "ok" ELSE ""]
  /\ UNCHANGED <<thresholds, alerts, riskProfiles, executed, hvars, cvars, pvars, query, mvars>>

\* the position after the alert in hand
Advance(a) ==
  [a EXCEPT !.next = @ + 1,
            !.pc = IF a.next = Len(a.filteredAlerts) THEN "done" ELSE "actions",
            !.result = IF a.next = Len(a.filteredAlerts) THEN "ok" ELSE ""]

\* lines 114-116 and 494-508: the alert is stored, and with a threshold for
\* its category the action is appended to its log (the stored alert and the
\* returned one are the same object)
StoreAlert ==
  /\ analysis.pc = "actions"
  /\ LET alert == analysis.filteredAlerts[analysis.next]
         threshold == FindThreshold(thresholds, alert.alertType)
         logged == IF threshold = <<>> THEN alert
                   ELSE [alert EXCEPT !.actions = Append(@, FraudAction(threshold[1], clock))]
         held == [analysis EXCEPT !.filteredAlerts[analysis.next] = logged]
     IN /\ alerts' = MapSet(alerts, alert.id, logged)
        /\ analysis' = IF threshold # <<>> /\ InvokesExecutor(threshold[1].action)
                         THEN [held EXCEPT !.pc = "executor"]
                         ELSE Advance(held)
  /\ UNCHANGED <<thresholds, riskProfiles, executed, hvars, cvars, pvars, query, mvars>>

\* lines 511-526: suspendPartner or blockPartner is called and awaited
ExecuteAction(executor) ==
  /\ analysis.pc = "executor"
  /\ LET alert == analysis.filteredAlerts[analysis.next]
     IN executed' = Append(executed,
                      [action |-> alert.actions[Len(alert.actions)].action,
                       partnerId |-> alert.partnerId, alertId |-> alert.id])
  /\ analysis' = IF executor = "fail" THEN Finish("ExecutorFailed") ELSE Advance(analysis)
  /\ UNCHANGED <<thresholds, alerts, riskProfiles, hvars, cvars, pvars, query, mvars>>

\* the hierarchy manager and the commission engine are not driven here
FraudInit ==
  /\ thresholds \in ThresholdLists
  /\ alerts = <<>>
  /\ riskProfiles = <<>>
  /\ executed = <<>>
  /\ analysis = NoAnalysis
  /\ manager = IdleManager
  /\ configCall = NoConfigCall
  /\ partners = <<>>
  /\ config = IdleConfig
  /\ lastCall = NoCall
  /\ hung = FALSE
  /\ calls = 0
  /\ rules = IdleRules
  /\ clock = 0
  /\ calc = NoCalc
  /\ prevDists = <<>>
  /\ procs = IdleProcs
  /\ interleaved = FALSE
  /\ query = NoQuery

FraudNext ==
  \/ \E partnerId \in 1..(Len(FraudPartners) + 1), queries \in {"ok", "fail"} :
       AnalyzePartner(partnerId, queries)
  \/ \E query_ \in {"ok", "fail"} : DetectAlerts(query_)
  \/ StoreAlert
  \/ \E executor \in {"ok", "fail"} : ExecuteAction(executor)

SpecFraud == FraudInit /\ [][FraudNext]_vars

\* C1: after any sequence of addPartner, movePartner and deactivatePartner
\* calls no partner's sponsorPath contains that partner's own id.
C1_NoOwnIdInPath ==
  ~hung => \A p \in Ids : ~PathIncludes(partners[p].sponsorPath, p)

\* C2: for every partner, level = number of ids in the decoded path + 1 and
\* the decoded path is the chain of sponsors from the root down to the
\* immediate sponsor.
C2_LevelAndPathAreTheChain ==
  ~hung => \A p \in Ids :
    /\ partners[p].level = Len(DecodePath(partners[p].sponsorPath)) + 1
    /\ DecodePath(partners[p].sponsorPath) =
         [i \in DOMAIN SponsorChain(partners, p, HopLimit(partners)) |->
            <<SponsorChain(partners, p, HopLimit(partners))[i]>>]

\* C3: after every mutation every partner that has a sponsor is one level
\* below its sponsor.
C3_ChildOneBelowSponsor ==
  ~hung => \A p \in Ids :
    partners[p].sponsorId # NoSponsor =>
      partners[p].level = partners[partners[p].sponsorId].level + 1

\* C4: every partner's level is at most the configured maxHierarchyLevels.
C4_LevelWithinMax ==
  ~hung => \A p \in Ids : partners[p].level <= config.maxHierarchyLevels

\* C5: movePartner(P, Q) with Q transitively sponsored by P fails with
\* SelfCycle and leaves every partner record unchanged.
C5_MoveIntoDownlineFails ==
  [][\A P \in Ids, Q \in Ids :
       ( /\ IsDescendant(partners, Q, P)
         /\ calls' = calls + 1
         /\ lastCall'.op = "movePartner" /\ lastCall'.p = P /\ lastCall'.q = Q )
       => (lastCall'.result = "SelfCycle" /\ partners' = partners)]_vars

\* C6: after a deactivatePartner(P, reason, TRUE) that returns, every former
\* direct child of P has P's former sponsor as its sponsor, or is a root
\* with level 1 and empty path if P had none; only P changes status.
C6_RedistributionPost(s, t, P) ==
  /\ \A c \in getDirectDownline(s, P) :
       IF s[P].sponsorId # NoSponsor
         THEN t[c].sponsorId = s[P].sponsorId
         ELSE t[c].sponsorId = NoSponsor /\ t[c].level = 1 /\ t[c].sponsorPath = <<>>
  /\ \A x \in DOMAIN s : x # P => t[x].status = s[x].status
  /\ Cardinality({x \in DOMAIN s : s[x].status = "active"})
       - Cardinality({x \in DOMAIN t : t[x].status = "active"}) \in {0, 1}

C6_RedistributionMovesChildren ==
  [][\A P \in Ids :
       ( /\ calls' = calls + 1
         /\ lastCall'.op = "deactivatePartner" /\ lastCall'.p = P
         /\ lastCall'.q = 1 /\ lastCall'.result = "ok" )
       => C6_RedistributionPost(partners, partners', P)]_vars

\* a redistribution of two or more children to the partner's sponsor
C6_Witness ==
  /\ lastCall.op = "deactivatePartner" /\ lastCall.q = 1 /\ lastCall.result = "ok"
  /\ lastCall.n >= 2
  /\ partners[lastCall.p].sponsorId # NoSponsor
  /\ Cardinality(getDirectDownline(partners, partners[lastCall.p].sponsorId)) >= 3

\* ------------------------------------------------------ commission claims
\* C7: every distribution returned by calculateCommissions or by
\* calculateResidualCommissions is consistent: commissions plus bonuses
\* differ from totalCommissionPaid by less than 0.01.
C7_DistributionsConsistent ==
  calc.result = "ok" =>
    \A i \in DOMAIN calc.dists : validateCommissionDistribution(calc.dists[i])

\* C8: calculating the same transaction twice against the same upline and
\* rule-set yields identical outcomes and distributions.
C8_RecalculationIdentical ==
  calc.again => calc.result = prevDists[1].result /\ calc.dists = prevDists[1].dists

\* ----------------------------------------------------- concurrency claims
\* C9: when two concurrent updatePartnerMetrics calls with team-volume deltas
\* d1 and d2 have both completed, every ancestor the two partners share
\* holds its initial teamVolume + d1 + d2.
C9_NoLostVolumeUpdate ==
  \A p1 \in Procs, p2 \in Procs :
    ( /\ p1 < p2
      /\ procs[p1].op = "updatePartnerMetrics" /\ procs[p1].result = "ok"
      /\ procs[p2].op = "updatePartnerMetrics" /\ procs[p2].result = "ok" )
    => \A A \in Ancestors(partners, procs[p1].partnerId)
                  \cap Ancestors(partners, procs[p2].partnerId) :
         partners[A].teamVolume = 0 + procs[p1].delta + procs[p2].delta

\* C10: two concurrent movePartner calls on overlapping subtrees or chains do
\* not interleave their steps, and when both have finished the sponsor graph
\* is acyclic, every sponsored partner is one level below its sponsor, and
\* every level is the length of the decoded path + 1.
C10_MovesSerialized ==
  /\ ~interleaved
  /\ (\A pr \in Procs : procs[pr].op = "movePartner" /\ procs[pr].pc = "done")
       => \A p \in Ids :
            /\ p \notin Ancestors(partners, p)
            /\ partners[p].sponsorId # NoSponsor =>
                 partners[p].level = partners[partners[p].sponsorId].level + 1
            /\ partners[p].level = Len(DecodePath(partners[p].sponsorPath)) + 1

\* ---------------------------------------------------- read and call claims
\* the decoded path of p is p's chain of sponsors, root first
PathIsChain(s, p) ==
  DecodePath(s[p].sponsorPath) =
    [i \in DOMAIN SponsorChain(s, p, HopLimit(s)) |-> <<SponsorChain(s, p, HopLimit(s))[i]>>]

\* C11: for every partner with a non-empty path (that is its sponsor chain),
\* getUplineHierarchy returns the ancestors root-first: the top-level sponsor
\* first and the immediate sponsor last.
C11_UplineRootFirst ==
  ( /\ query.op = "getUplineHierarchy"
    /\ Found(partners, query.p)
    /\ partners[query.p].sponsorPath # <<>>
    /\ PathIsChain(partners, query.p) )
  => query.out = SponsorChain(partners, query.p, HopLimit(partners))

FailedAdd == {"InvalidSponsor", "SponsorNotActive", "DepthExceeded"}

\* C12: addPartner fails and changes no stored partner record whenever the
\* given sponsor does not exist, is not active, or is at the maximum level.
C12_FailedAddChangesNothing ==
  [][ ( /\ calls' = calls + 1
        /\ lastCall'.op = "addPartner"
        /\ lastCall'.q # NoSponsor
        /\ \/ ~Found(partners, lastCall'.q)
           \/ partners[lastCall'.q].status # "active"
           \/ partners[lastCall'.q].level + 1 > config.maxHierarchyLevels )
      => (lastCall'.result \in FailedAdd /\ partners' = partners) ]_vars

\* a call was refused for depth under a sponsor that has a sponsor itself
C12_Witness ==
  /\ lastCall.op = "addPartner"
  /\ lastCall.result = "DepthExceeded"
  /\ Found(partners, lastCall.q)
  /\ partners[lastCall.q].sponsorId # NoSponsor

\* C14: a successful addPartner with sponsor S adds exactly 1 to
\* S.directReferrals and to totalDownline of S and of every ancestor of S,
\* whatever the ancestors' status, and changes no other counter.
C14_AddCountsUpTheChain ==
  [][ ( /\ calls' = calls + 1
        /\ lastCall'.op = "addPartner"
        /\ lastCall'.result = "ok"
        /\ lastCall'.q # NoSponsor )
      => \A x \in Ids :
           /\ partners'[x].directReferrals =
                partners[x].directReferrals + (IF x = lastCall'.q THEN 1 ELSE 0)
           /\ partners'[x].totalDownline =
                partners[x].totalDownline +
                  (IF x \in {lastCall'.q} \cup Ancestors(partners, lastCall'.q)
                     THEN 1 ELSE 0) ]_vars

\* a partner was added under a sponsor one of whose ancestors is not active
C14_Witness ==
  /\ lastCall.op = "addPartner"
  /\ lastCall.result = "ok"
  /\ lastCall.q # NoSponsor
  /\ \E A \in Ancestors(partners, lastCall.q) :
       partners[A].status # "active" /\ partners[A].totalDownline >= 2

\* C13: whatever partnerData the caller passes, a successful addPartner
\* returns a partner one level below the sponsor (level 1 without sponsor),
\* whose path is the sponsor's path followed by the sponsor's id (empty
\* without sponsor), with zero volumes and counts, and with status active
\* under autoActivation and pending otherwise.
C13_NewPartnerFields ==
  [][ ( /\ calls' = calls + 1
        /\ lastCall'.op = "addPartner"
        /\ lastCall'.result = "ok" )
      => LET S == lastCall'.q
             new == partners'[lastCall'.p]
         IN /\ new.level = (IF S = NoSponsor THEN 1 ELSE partners[S].level + 1)
            /\ DecodePath(new.sponsorPath) =
                 (IF S = NoSponsor THEN <<>>
                  ELSE Append(DecodePath(partners[S].sponsorPath), <<S>>))
            /\ new.teamVolume = 0
            /\ new.directReferrals = 0
            /\ new.totalDownline = 0
            /\ new.status = (IF config.autoActivation THEN "active" ELSE "pending") ]_vars

\* C15: updatePartnerMetrics(P, {teamVolume: v}) with v different from P's
\* stored teamVolume adds the delta v - P.teamVolume once to the teamVolume of
\* each ancestor of P and changes nothing else; without teamVolume, or with
\* an unchanged one, nothing is written.
C15_DeltaUpTheChain ==
  [][ ( /\ calls' = calls + 1
        /\ lastCall'.op = "updatePartnerMetrics"
        /\ lastCall'.result = "ok" )
      => LET P == lastCall'.p
             v == lastCall'.q
         IN IF v # -1 /\ v # partners[P].teamVolume
              THEN \A x \in Ids :
                     partners'[x] =
                       [partners[x] EXCEPT !.teamVolume =
                          @ + (IF x \in Ancestors(partners, P)
                                 THEN v - partners[P].teamVolume ELSE 0)]
              ELSE partners' = partners ]_vars

\* a call on a partner with a sponsor whose stored teamVolume was neither 0
\* nor the new value: the delta differs from the new value
C15_Witness ==
  /\ lastCall.op = "updatePartnerMetrics"
  /\ lastCall.result = "ok"
  /\ lastCall.q # -1
  /\ partners[lastCall.p].sponsorId # NoSponsor
  /\ partners[lastCall.p].teamVolume \notin {0, lastCall.q}
  /\ partners[partners[lastCall.p].sponsorId].teamVolume # 0

\* the path segments of the sponsors of D strictly below its ancestor P
ChainBelow(s, D, P) ==
  LET c == SponsorChain(s, D, HopLimit(s))
      i == CHOOSE i \in DOMAIN c : c[i] = P
  IN [k \in 1..(Len(c) - i) |-> <<c[i + k]>>]

\* C16: after a successful movePartner(P, S), P is sponsored by S, one level
\* below S, with path = S's path followed by S; every descendant D of P keeps
\* its depth offset from P and has path = P's new path, then P, then the
\* unchanged chain of sponsors between P and D.
C16_MoveRewritesSubtree ==
  [][ ( /\ calls' = calls + 1
        /\ lastCall'.op = "movePartner"
        /\ lastCall'.result = "ok" )
      => LET P == lastCall'.p
             S == lastCall'.q
         IN /\ partners'[P].sponsorId = S
            /\ partners'[P].level = partners'[S].level + 1
            /\ DecodePath(partners'[P].sponsorPath) =
                 Append(DecodePath(partners'[S].sponsorPath), <<S>>)
            /\ \A D \in Ids :
                 IsDescendant(partners, D, P) =>
                   /\ partners'[D].level - partners'[P].level =
                        partners[D].level - partners[P].level
                   /\ DecodePath(partners'[D].sponsorPath) =
                        DecodePath(partners'[P].sponsorPath) \o <<<<P>>>>
                          \o ChainBelow(partners, D, P) ]_vars

\* C17: a failing movePartner or deactivatePartner call makes no mutation:
\* every stored partner record is as before the call.
C17_FailedCallChangesNothing ==
  [][ ( /\ calls' = calls + 1
        /\ lastCall'.op \in {"movePartner", "deactivatePartner"}
        /\ lastCall'.result \notin {"ok", "diverged"} )
      => partners' = partners ]_vars

\* the sponsor chain of p, walked upward, revisits a partner: it does not
\* end at a root (or at a missing sponsor) within as many hops as partners
RECURSIVE WalkEnds(_, _, _)
WalkEnds(s, current, fuel) ==
  IF s[current].sponsorId = NoSponsor \/ ~Found(s, s[current].sponsorId) THEN TRUE
  ELSE IF fuel = 0 THEN FALSE
  ELSE WalkEnds(s, s[current].sponsorId, fuel - 1)

ChainRepeats(s, p) == ~WalkEnds(s, p, HopLimit(s))

\* C18: validateHierarchy reports a circular-reference error for every
\* partner whose sponsor chain revisits a partner, also when the partner is
\* not itself on the cycle.
C18_EveryRepeatReported ==
  query.op = "validateHierarchy" =>
    \A p \in Ids :
      ChainRepeats(partners, p) =>
        \E i \in DOMAIN query.errors :
          query.errors[i] = [kind |-> "circular", partner |-> p]

Reported(list, kind, p) == \E i \in DOMAIN list : list[i] = [kind |-> kind, partner |-> p]

\* C19: validateHierarchy changes no partner record and returns, also on a
\* hierarchy with a dangling sponsor, a cycle, a wrong level, a wrong path
\* length or excess depth: the violations are in the returned lists, and
\* isValid is true exactly when the error list is empty.
C19_ValidateOnlyReports ==
  [][ (query'.op = "validateHierarchy" /\ query' # query)
      => /\ partners' = partners
         /\ query'.isValid = (query'.errors = <<>>)
         /\ \A p \in Ids :
              /\ (partners[p].sponsorId # NoSponsor /\ ~Found(partners, partners[p].sponsorId))
                   => Reported(query'.errors, "invalidSponsor", p)
              /\ (partners[p].sponsorId # NoSponsor /\ Found(partners, partners[p].sponsorId)
                    /\ partners[partners[p].sponsorId].level >= partners[p].level)
                   => Reported(query'.errors, "level", p)
              /\ partners[p].level > config.maxHierarchyLevels
                   => Reported(query'.errors, "depth", p)
              /\ (partners[p].sponsorPath # <<>>
                    /\ Len(DecodePath(partners[p].sponsorPath)) # partners[p].level - 1)
                   => Reported(query'.warnings, "pathLength", p) ]_vars

\* a hierarchy with a sponsor cycle and a partner above the maximum level was
\* validated
C19_Witness ==
  /\ query.op = "validateHierarchy"
  /\ ~query.isValid
  /\ \E p \in Ids : ChainRepeats(partners, p)
  /\ \E p \in Ids : partners[p].level > config.maxHierarchyLevels

\* C20: calculateCommissions fails with the invalid-amount error for every
\* transaction with amount <= 0, whatever the product and the upline, and for
\* amount > 0 it returns a well-formed distribution: all zero for an unknown
\* or ineligible product, and otherwise one positive commission at most per
\* upline level within the maximum, with positive bonuses.
C20_OnlyAmountFails ==
  calc.op = "calculateCommissions" =>
    IF calc.transaction.amount <= 0
      THEN calc.result = "InvalidAmount" /\ calc.dists = <<>>
      ELSE /\ calc.result = "ok"
           /\ Len(calc.dists) = 1
           /\ LET D == calc.dists[1]
              IN /\ D.transactionId = calc.transaction.id
                 /\ D.totalCommissionPaid >= 0
                 /\ \A i \in DOMAIN D.commissions :
                      /\ D.commissions[i].commissionAmount > 0
                      /\ D.commissions[i].level \in 1..Len(calc.partnerHierarchy)
                      /\ D.commissions[i].level <= rules.maxHierarchyLevels
                      /\ D.commissions[i].partnerId =
                           calc.partnerHierarchy[D.commissions[i].level].id
                      /\ \A j \in DOMAIN D.commissions :
                           D.commissions[j].level = D.commissions[i].level => j = i
                 /\ \A i \in DOMAIN D.bonuses : D.bonuses[i].amount > 0
                 /\ (~\E k \in DOMAIN rules.products :
                        /\ rules.products[k].id = calc.transaction.productId
                        /\ rules.products[k].commissionEligible)
                      => (D.totalCommissionPaid = 0 /\ D.commissions = <<>>
                            /\ D.bonuses = <<>>)

\* a positive amount on an eligible product with an upline none of whose
\* partners earns a commission
C20_Witness ==
  /\ calc.op = "calculateCommissions"
  /\ calc.result = "ok"
  /\ calc.transaction.amount > 0
  /\ calc.transaction.productId \in {"basic", "plan"}
  /\ calc.partnerHierarchy # <<>>
  /\ calc.dists[1].commissions = <<>>

\* ------------------------------------------------- tier and amount claims
\* the partner reaches every threshold the criteria set
Qualifies(partner, criteria, now) ==
  /\ partner.personalVolume >= criteria.personalVolume
  /\ partner.teamVolume >= criteria.teamVolume
  /\ partner.activeDownline >= criteria.activeDownline
  /\ criteria.timeInBusiness > 0 =>
       calculateMonthsInBusiness(partner.joinDate, now) >= criteria.timeInBusiness
  /\ criteria.certificationRequired \subseteq partner.certifications

\* the configured tiers of a level whose criteria the partner meets
QualifyingTiers(rs, partner, level, now) ==
  {k \in DOMAIN rs.tiers :
     rs.tiers[k].level = level /\ Qualifies(partner, rs.tiers[k].qualificationCriteria, now)}

\* C21: for every upline position, the tier calculateCommissions uses is a
\* configured tier of level position + 1 whose criteria the partner at that
\* position meets, and no other such tier has a strictly higher rate; when no
\* tier matches, that level gets no commission and no bonus.
C21_TierIsBestQualifying ==
  (calc.op = "calculateCommissions" /\ calc.result = "ok") =>
    LET D == calc.dists[1] IN
    \A L \in 1..Len(calc.partnerHierarchy) :
      LET partner == calc.partnerHierarchy[L]
          Q == QualifyingTiers(rules, partner, L, D.processingTimestamp)
      IN /\ \A i \in DOMAIN D.commissions :
              D.commissions[i].level = L =>
                \E k \in Q :
                  /\ rules.tiers[k].name = D.commissions[i].tierName
                  /\ \A j \in Q : rules.tiers[j].commissionRate <= rules.tiers[k].commissionRate
         /\ Q = {} =>
              /\ \A i \in DOMAIN D.commissions : D.commissions[i].level # L
              /\ \A i \in DOMAIN D.bonuses : D.bonuses[i].partnerId # partner.id

\* a commission at a level where two tiers of different rates qualify
C21_Witness ==
  /\ calc.op = "calculateCommissions"
  /\ calc.result = "ok"
  /\ \E L \in 1..Len(calc.partnerHierarchy) :
       /\ \E i \in DOMAIN calc.dists[1].commissions : calc.dists[1].commissions[i].level = L
       /\ \E j, k \in QualifyingTiers(rules, calc.partnerHierarchy[L], L,
                                      calc.dists[1].processingTimestamp) :
            rules.tiers[j].commissionRate < rules.tiers[k].commissionRate

\* the product of the transaction, as products.find returns it
ProductOf(rs, transaction) ==
  LET found == {k \in DOMAIN rs.products : rs.products[k].id = transaction.productId}
  IN IF found = {} THEN <<>>
     ELSE <<rs.products[CHOOSE k \in found : \A q \in found : k <= q]>>

\* C22: whenever the product defines a rate override for a level (any value,
\* 0 included), calculateCommissions uses the override for that level and
\* not the selected tier's own rate.
C22_OverrideUsed ==
  (calc.op = "calculateCommissions" /\ calc.result = "ok") =>
    LET D == calc.dists[1]
        product == ProductOf(rules, calc.transaction)
    IN \A i \in DOMAIN D.commissions :
         D.commissions[i].level \in DOMAIN product[1].commissionRates =>
           D.commissions[i].commissionRate =
             product[1].commissionRates[D.commissions[i].level]

\* the commission of a distribution at a level: <<>> or <<commission>>
CommissionAt(D, L) ==
  SelectSeq(D.commissions, LAMBDA c : c.level = L)

\* the rule-set without its k-th cap
WithoutCap(rs, k) ==
  [rs EXCEPT !.caps = [i \in 1..(Len(rs.caps) - 1) |-> IF i < k THEN rs.caps[i]
                                                       ELSE rs.caps[i + 1]]]

\* C23: every commission amount emitted at level L is at most the maxAmount
\* of every configured cap that lists L or applies to all levels, and a cap
\* that applies to neither L nor all levels never lowers the amount: without
\* that cap the level gets the same commission.
C23_CapsBound ==
  (calc.op = "calculateCommissions" /\ calc.result = "ok") =>
    LET D == calc.dists[1] IN
    \A k \in DOMAIN rules.caps :
      LET cap == rules.caps[k]
          uncapped == calculateCommissions(WithoutCap(rules, k), calc.transaction,
                                           calc.partnerHierarchy, D.processingTimestamp)
      IN \A L \in 1..Len(calc.partnerHierarchy) :
           IF L \in cap.applicableLevels \/ cap.applicableToAll
             THEN \A i \in DOMAIN D.commissions :
                    D.commissions[i].level = L =>
                      D.commissions[i].commissionAmount <= cap.maxAmount
             ELSE CommissionAt(D, L) = CommissionAt(uncapped.dist[1], L)

\* the tier findApplicableTier selects: the first of the qualifying tiers of
\* the highest rate, as the index of the tier or 0
SelectedTier(rs, partner, L, now) ==
  LET Q == QualifyingTiers(rs, partner, L, now)
      best == {k \in Q : \A j \in Q : rs.tiers[j].commissionRate <= rs.tiers[k].commissionRate}
  IN IF Q = {} THEN 0 ELSE CHOOSE k \in best : \A j \in best : k <= j

\* the least of a number and the configured caps that apply to the level
LeastBound(rs, L, num) ==
  LET bounds == {num} \cup {100 * rs.caps[k].maxAmount : k \in
                    {j \in DOMAIN rs.caps : L \in rs.caps[j].applicableLevels
                                              \/ rs.caps[j].applicableToAll}}
  IN CHOOSE b \in bounds : \A c \in bounds : b <= c

\* C24: when the selected tier has a monthly earnings cap, the emitted
\* commission amount is min(rawAmount, tierCap - currentMonthEarnings) before
\* rounding (and before the configured caps of the level); when the partner's
\* current-month earnings already reach or exceed the cap, no commission and
\* no negative amount is emitted for that level.
C24_TierCapLeavesTheRest ==
  (calc.op = "calculateCommissions" /\ calc.result = "ok") =>
    LET D == calc.dists[1] IN
    \A L \in 1..Len(calc.partnerHierarchy) :
      LET partner == calc.partnerHierarchy[L]
          k == SelectedTier(rules, partner, L, D.processingTimestamp)
      IN (k # 0 /\ rules.tiers[k].maximumEarnings > 0) =>
           LET rest == rules.tiers[k].maximumEarnings - partner.currentMonthEarnings IN
           /\ rest <= 0 => CommissionAt(D, L) = <<>>
           /\ \A i \in DOMAIN D.commissions :
                D.commissions[i].level = L =>
                  LET c == D.commissions[i]
                      rawAmount == IF c.commissionType = "percentage"
                                     THEN c.baseAmount * c.commissionRate
                                     ELSE 100 * c.commissionRate
                  IN /\ c.commissionAmount > 0
                     /\ c.commissionAmount =
                          RoundToCents(LeastBound(rules, L, MinOf(rawAmount, 100 * rest)))

\* a partner with earnings this month whose raw amount was cut down to what
\* the tier's cap leaves
C24_Witness ==
  /\ calc.op = "calculateCommissions"
  /\ calc.result = "ok"
  /\ calc.transaction.productId = "basic"
  /\ \E L \in 1..Len(calc.partnerHierarchy) :
       LET partner == calc.partnerHierarchy[L]
           k == SelectedTier(rules, partner, L, calc.dists[1].processingTimestamp)
       IN /\ k # 0
          /\ rules.tiers[k].maximumEarnings > 0
          /\ partner.currentMonthEarnings > 0
          /\ \E i \in DOMAIN calc.dists[1].commissions :
               /\ calc.dists[1].commissions[i].level = L
               /\ calc.dists[1].commissions[i].commissionAmount =
                    rules.tiers[k].maximumEarnings - partner.currentMonthEarnings
               /\ calc.dists[1].commissions[i].commissionAmount * 100 <
                    calc.transaction.amount * rules.tiers[k].commissionRate

\* C25: each commission amount in a distribution returned by
\* calculateResidualCommissions is exactly 0.5 times the amount
\* calculateCommissions produces for a transaction of the subscription's
\* recurring amount against the same upline, and the distribution's total is
\* recomputed after the scaling: it is the sum of the scaled amounts.
C25_ResidualIsHalf ==
  (calc.op = "calculateResidualCommissions" /\ calc.result = "ok") =>
    \A i \in DOMAIN calc.dists :
      LET D == calc.dists[i] IN
      \E n \in DOMAIN calc.subscriptions :
        LET subscription == calc.subscriptions[n]
            full == calculateCommissions(rules,
                      [id |-> D.transactionId, amount |-> subscription.monthlyAmount,
                       productId |-> subscription.productId],
                      calc.partnerHierarchy, D.processingTimestamp)
        IN /\ D.transactionId[2] = subscription.id
           /\ full.result = "ok"
           /\ Len(D.commissions) = Len(full.dist[1].commissions)
           /\ \A j \in DOMAIN D.commissions :
                /\ 2 * D.commissions[j].commissionAmount =
                     full.dist[1].commissions[j].commissionAmount
                /\ [D.commissions[j] EXCEPT !.commissionAmount = 0] =
                     [full.dist[1].commissions[j] EXCEPT !.commissionAmount = 0]
           /\ D.totalCommissionPaid = SumAmounts(D.commissions, "commissionAmount")

\* two subscriptions paid in one call, one of them with a commission whose
\* half is not a whole number of cents
C25_Witness ==
  /\ calc.op = "calculateResidualCommissions"
  /\ calc.result = "ok"
  /\ Len(calc.dists) = 2
  /\ \A i \in DOMAIN calc.dists : calc.dists[i].commissions # <<>>
  /\ \E i \in DOMAIN calc.dists : \E j \in DOMAIN calc.dists[i].commissions :
       calc.dists[i].commissions[j].commissionAmount % Money(1) # 0

\* ------------------------------------------------------------ fraud claims
\* the threshold value configured for a category, if any: the set of values
\* of the threshold that find() returns
ThresholdFor(alertType) ==
  {thresholds[k].threshold : k \in {j \in DOMAIN thresholds :
       /\ thresholds[j].metric = alertType
       /\ \A i \in 1..(j - 1) : thresholds[i].metric # alertType}}

Kept(alert) ==
  \A value \in ThresholdFor(alert.alertType) : alert.riskScore >= value

\* the kept alerts of a list, in their order
RECURSIVE KeptOf(_)
KeptOf(list) ==
  IF list = <<>> THEN <<>>
  ELSE IF Kept(list[Len(list)])
    THEN Append(KeptOf(SubSeq(list, 1, Len(list) - 1)), list[Len(list)])
    ELSE KeptOf(SubSeq(list, 1, Len(list) - 1))

\* C26: applyFraudThresholds keeps an alert of category C if and only if no
\* threshold is configured for C or the alert's riskScore is at least the
\* configured threshold value; kept alerts are returned unchanged and in
\* their original order.
C26_ThresholdFilter ==
  analysis.pc \in {"actions", "executor"} \/ (analysis.pc = "done" /\ analysis.result = "ok")
    => /\ Len(analysis.filteredAlerts) = Len(KeptOf(analysis.detected))
       /\ \A i \in DOMAIN analysis.filteredAlerts :
            [analysis.filteredAlerts[i] EXCEPT !.actions = <<>>] = KeptOf(analysis.detected)[i]

\* a filtered list with an alert at its threshold, an alert without a
\* threshold, and a dropped alert between two kept ones
C26_Witness ==
  /\ analysis.pc = "actions"
  /\ analysis.next = 1
  /\ \E i \in DOMAIN analysis.filteredAlerts :
       ThresholdFor(analysis.filteredAlerts[i].alertType) =
         {analysis.filteredAlerts[i].riskScore}
  /\ \E i \in DOMAIN analysis.filteredAlerts :
       ThresholdFor(analysis.filteredAlerts[i].alertType) = {}
  /\ \E i, j, k \in DOMAIN analysis.detected :
       /\ i < j /\ j < k
       /\ Kept(analysis.detected[i]) /\ ~Kept(analysis.detected[j])
       /\ Kept(analysis.detected[k])

\* the action configured for a category, if any: the set of actions of the
\* threshold that find() returns
ActionFor(alertType) ==
  {thresholds[k].action : k \in {j \in DOMAIN thresholds :
       /\ thresholds[j].metric = alertType
       /\ \A i \in 1..(j - 1) : thresholds[i].metric # alertType}}

\* C27: every alert that survives the threshold filter in analyzePartner is
\* stored in the alert map and has exactly one entry appended to its action
\* log, an automated action of the kind the matching threshold configures;
\* alerts kept because no threshold is configured for their category included.
C27_EverySurvivorActed ==
  (analysis.pc = "done" /\ analysis.result = "ok") =>
    \A i \in DOMAIN analysis.filteredAlerts :
      LET alert == analysis.filteredAlerts[i] IN
      /\ alert.id \in DOMAIN alerts
      /\ alerts[alert.id] = alert
      /\ Len(alert.actions) = 1
      /\ alert.actions[1].automated
      /\ \A action \in ActionFor(alert.alertType) : alert.actions[1].action = action

\* the calls of the executor made for an alert
ExecutedFor(log, alertId) == {n \in DOMAIN log : log[n].alertId = alertId}

\* C28: during analyzePartner the action executor (suspend or block the
\* partner) is invoked for an alert if and only if the action recorded for
\* that alert is suspend or block, exactly once per such alert and only after
\* the action was appended to the alert's log; flag and investigate never
\* invoke it.
C28_ExecutorOnlyForSuspendAndBlock ==
  [][ /\ \A n \in DOMAIN executed' \ DOMAIN executed :
           /\ executed'[n].alertId \in DOMAIN alerts
           /\ LET log == alerts[executed'[n].alertId].actions
              IN /\ log # <<>>
                 /\ log[Len(log)].action = executed'[n].action
                 /\ executed'[n].partnerId = alerts[executed'[n].alertId].partnerId
      /\ \A n \in DOMAIN executed' : executed'[n].action \in {"suspend", "block"}
      /\ \A id \in DOMAIN alerts' : Cardinality(ExecutedFor(executed', id)) <= 1
      /\ (analysis'.pc = "done" /\ analysis'.result = "ok") =>
           \A i \in DOMAIN analysis'.filteredAlerts :
             LET alert == analysis'.filteredAlerts[i]
                 recorded == {alert.actions[k].action : k \in DOMAIN alert.actions}
             IN Cardinality(ExecutedFor(executed', alert.id)) =
                  IF recorded \cap {"suspend", "block"} # {} THEN 1 ELSE 0 ]_vars

\* a finished call that recorded a flag or an investigation for one alert
\* and a suspension or a block for another, the executor called for the latter
C28_Witness ==
  /\ analysis.pc = "done"
  /\ analysis.result = "ok"
  /\ \E i, j \in DOMAIN analysis.filteredAlerts :
       /\ analysis.filteredAlerts[i].actions # <<>>
       /\ analysis.filteredAlerts[i].actions[1].action \in {"flag", "investigate"}
       /\ analysis.filteredAlerts[j].actions # <<>>
       /\ analysis.filteredAlerts[j].actions[1].action \in {"suspend", "block"}
       /\ ExecutedFor(executed, analysis.filteredAlerts[j].id) # {}

\* C29: if analyzePartner fails at any point (partner not found, a store
\* query failing, the action executor failing on some alert), the engine's
\* stored risk profiles and alert map are the same as before the call.
C29_FailedAnalysisChangesNothing ==
  (analysis.pc = "done" /\ analysis.result # "ok") =>
    /\ riskProfiles = analysis.before[1].riskProfiles
    /\ alerts = analysis.before[1].alerts

\* ---------------------------------------------------------- isolation claim
\* C30: a read traversal (here getDownlineHierarchy) that runs concurrently
\* with a movePartner observes either the complete state before the move or
\* the complete state after it: what it returns is what it would return
\* from the store the move found or from the store the move left, never a
\* mix in which the moved partner has its new place while its descendants
\* or the sponsor counters still have the old values.
C30_ReadsSeeBeforeOrAfter ==
  \A mover \in Procs :
    ( /\ procs[mover].op = "movePartner"
      /\ procs[mover].pc = "done"
      /\ query.op = "getDownlineHierarchy" )
    => \/ query.out = DownlineOf(procs[mover].snap, query.p)
       \/ query.out = DownlineOf(partners, query.p)

\* ---------------------------------------------------- reads after reorganisation
\* getDownlineHierarchy and validateHierarchy on the stores that moves and
\* deactivations leave
DownlineSeeds == {<<NoSponsor, 1, 2>>, <<NoSponsor, 1, 1>>}

GetDownlineHierarchy(partnerId, maxLevels, activeOnly) ==
  /\ ~hung
  /\ query' = [NoQuery EXCEPT
                 !.op = "getDownlineHierarchy", !.p = partnerId,
                 !.maxLevels = maxLevels, !.activeOnly = activeOnly,
                 !.out = getDownlineHierarchy(partners, partnerId, maxLevels, activeOnly)]
  /\ UNCHANGED <<hvars, cvars, pvars, fvars, mvars>>

DownlineInit ==
  /\ config \in [maxHierarchyLevels : {3, DefaultMaxLevels}, autoActivation : {TRUE}]
  /\ partners \in {Enrolled(config, sponsors) : sponsors \in DownlineSeeds}
  /\ lastCall = NoCall
  /\ hung = FALSE
  /\ calls = 0
  /\ rules = IdleRules
  /\ clock = 0
  /\ calc = NoCalc
  /\ prevDists = <<>>
  /\ procs = IdleProcs
  /\ interleaved = FALSE
  /\ query = NoQuery
  /\ thresholds = <<>>
  /\ alerts = <<>>
  /\ riskProfiles = <<>>
  /\ executed = <<>>
  /\ analysis = NoAnalysis
  /\ manager = IdleManager
  /\ configCall = NoConfigCall

\* the reads follow the reorganisation, so that the recorded answer is an
\* answer about the store as it stands
DownlineNext ==
  \/ \E partnerId \in PartnerIds, newSponsorId \in PartnerIds :
       /\ calls < MaxServiceCalls /\ query = NoQuery
       /\ MovePartner(partnerId, newSponsorId)
  \/ \E partnerId \in PartnerIds, redistribute \in BOOLEAN :
       /\ calls < MaxServiceCalls /\ query = NoQuery
       /\ DeactivatePartner(partnerId, redistribute)
  \/ \E partnerId \in PartnerIds, maxLevels \in {1, DefaultMaxLevels}, activeOnly \in BOOLEAN :
       GetDownlineHierarchy(partnerId, maxLevels, activeOnly)
  \/ ValidateHierarchy

SpecDownline == DownlineInit /\ [][DownlineNext]_vars

\* C31: in every hierarchy reachable by add, move and deactivate operations,
\* getDownlineHierarchy(P, maxLevels, activeOnly) returns exactly the partners
\* transitively sponsored by P whose level minus P's level is at most
\* maxLevels and, with activeOnly, whose status is active; never P itself or
\* a partner that is no descendant of P; ordered by non-decreasing level.
C31_DownlineIsTheDescendants ==
  query.op = "getDownlineHierarchy" =>
    /\ {query.out[i] : i \in DOMAIN query.out} =
         {q \in Ids : /\ Found(partners, query.p)
                      /\ IsDescendant(partners, q, query.p)
                      /\ partners[q].level - partners[query.p].level <= query.maxLevels
                      /\ (query.activeOnly => partners[q].status = "active")}
    /\ \A i, j \in DOMAIN query.out :
         i < j => /\ query.out[i] # query.out[j]
                  /\ partners[query.out[i]].level <= partners[query.out[j]].level

\* C32: calculateCommissions emits at most one commission per upline
\* position, only for positions within the upline and within
\* maxHierarchyLevels, each with the level of its position and the id of the
\* partner at that position, in strictly increasing level order, and every
\* emitted commission amount is strictly positive.
C32_OnePositiveCommissionPerPosition ==
  (calc.op = "calculateCommissions" /\ calc.result = "ok") =>
    \A d \in DOMAIN calc.dists :
      LET commissions == calc.dists[d].commissions IN
      /\ \A i \in DOMAIN commissions :
           /\ commissions[i].level >= 1
           /\ commissions[i].level <= Len(calc.partnerHierarchy)
           /\ commissions[i].level <= rules.maxHierarchyLevels
           /\ commissions[i].partnerId = calc.partnerHierarchy[commissions[i].level].id
           /\ commissions[i].commissionAmount > 0
      /\ \A i, j \in DOMAIN commissions :
           i < j => commissions[i].level < commissions[j].level

\* the partner at the first position earns nothing and the partner at the
\* second position is paid, at level 2
C32_Witness ==
  /\ calc.op = "calculateCommissions"
  /\ calc.result = "ok"
  /\ Len(calc.partnerHierarchy) = 2
  /\ Len(calc.dists) = 1
  /\ Len(calc.dists[1].commissions) = 1
  /\ calc.dists[1].commissions[1].level = 2

\* the rule's trigger compared with the metric stored on the partner
TriggerHolds(partner, bonusRule) ==
  LET trigger == bonusRule.trigger
      stored == [monthly_volume |-> partner.monthlyVolume,
                 team_size |-> partner.activeDownline,
                 personal_sales |-> partner.personalVolume,
                 consecutive_months |-> partner.consecutiveActiveMonths]
  IN /\ trigger.metric \in DOMAIN stored
     /\ \/ trigger.operator = "equals" /\ stored[trigger.metric] = trigger.value
        \/ trigger.operator = "greater_than" /\ stored[trigger.metric] > trigger.value
        \/ trigger.operator = "less_than" /\ stored[trigger.metric] < trigger.value
        \/ trigger.operator = "between" /\ stored[trigger.metric] \in
                                             trigger.range[1]..trigger.range[2]

\* C33: a bonus for partner X appears in a distribution only if X received
\* a strictly positive commission in the same distribution, X satisfies the
\* bonus rule's eligibility criteria and the rule's trigger holds for X's
\* stored metric; each bonus rule contributes at most one bonus per
\* commissioned upline position, and a level skipped for missing tier,
\* minimum volume or exhausted cap yields no bonus.
C33_BonusOnlyWithCommission ==
  (calc.op = "calculateCommissions" /\ calc.result = "ok") =>
    \A d \in DOMAIN calc.dists :
      LET D == calc.dists[d] IN
      /\ \A b \in DOMAIN D.bonuses :
           \E c \in DOMAIN D.commissions, r \in DOMAIN rules.bonuses :
             LET X == calc.partnerHierarchy[D.commissions[c].level] IN
             /\ D.commissions[c].partnerId = D.bonuses[b].partnerId
             /\ D.commissions[c].commissionAmount > 0
             /\ X.id = D.bonuses[b].partnerId
             /\ rules.bonuses[r].id = D.bonuses[b].bonusId
             /\ Qualifies(X, rules.bonuses[r].eligibilityCriteria, clock)
             /\ TriggerHolds(X, rules.bonuses[r])
      /\ \A b1, b2 \in DOMAIN D.bonuses :
           (D.bonuses[b1].partnerId = D.bonuses[b2].partnerId
              /\ D.bonuses[b1].bonusId = D.bonuses[b2].bonusId) => b1 = b2

\* two commissioned positions: the partner at one is paid both bonuses, the
\* partner at the other, whose metrics trigger no rule, none
C33_Witness ==
  /\ calc.op = "calculateCommissions"
  /\ calc.result = "ok"
  /\ Len(calc.dists) = 1
  /\ Len(calc.dists[1].commissions) = 2
  /\ Len(calc.dists[1].bonuses) = 2
  /\ calc.dists[1].bonuses[1].partnerId = calc.dists[1].bonuses[2].partnerId
  /\ calc.dists[1].bonuses[1].bonusId # calc.dists[1].bonuses[2].bonusId

\* C34: after any sequence of addPartner, movePartner (moves of partners
\* with their own subtree included) and deactivatePartner calls, every
\* partner's stored totalDownline is the number of partners transitively
\* sponsored by it and its directReferrals the number of partners whose
\* sponsorId is that partner.
C34_CountersMatchTheLinks ==
  ~hung =>
    \A p \in Ids :
      /\ partners[p].totalDownline = Cardinality({q \in Ids : IsDescendant(partners, q, p)})
      /\ partners[p].directReferrals = Cardinality({q \in Ids : partners[q].sponsorId = p})

\* C35: after any sequence of addPartner, movePartner and deactivatePartner
\* calls the sponsorId links form a forest: no partner is its own sponsor and
\* following sponsorId links from any partner reaches a partner without
\* sponsor in finitely many steps, also when the move target is an inactive
\* or pending descendant or lies more than 5 levels below the moved partner.
C35_SponsorLinksFormForest ==
  \A p \in Ids :
    /\ partners[p].sponsorId # p
    /\ WalkEnds(partners, p, HopLimit(partners))

\* C36: in every hierarchy state reachable by add, move and deactivate
\* operations each ancestor-chain walk terminates: the total-downline
\* propagation of addPartner, movePartner and deactivatePartner and the
\* team-volume propagation of updatePartnerMetrics make finitely many hops
\* and stop at a root.
C36_WalksTerminate ==
  /\ ~hung
  /\ lastCall.op \in {"addPartner", "movePartner", "deactivatePartner",
                      "updatePartnerMetrics"} => lastCall.result # "diverged"

\* C37: whenever validateHierarchy returns isValid = true the data-model
\* invariants hold for every partner: the sponsor exists, the sponsor's level
\* is below the partner's, the path has exactly level - 1 elements (also for
\* an empty path and a level above 1), the level is at most
\* maxHierarchyLevels, and the sponsor chain is acyclic.
C37_ValidMeansInvariantsHold ==
  (query.op = "validateHierarchy" /\ query.isValid) =>
    \A p \in Ids :
      /\ partners[p].sponsorId # NoSponsor =>
           /\ Found(partners, partners[p].sponsorId)
           /\ partners[partners[p].sponsorId].level < partners[p].level
      /\ Len(DecodePath(partners[p].sponsorPath)) = partners[p].level - 1
      /\ partners[p].level <= config.maxHierarchyLevels
      /\ WalkEnds(partners, p, HopLimit(partners))

\* C38: deactivatePartner(P, reason, redistribute) never removes a partner:
\* P remains in the store with status inactive and unchanged sponsor, level
\* and path; with redistribute = false no other partner's sponsor, level or
\* path changes.
C38_DeactivateKeepsThePartner ==
  [][ (lastCall'.op = "deactivatePartner" /\ calls' = calls + 1
         /\ Found(partners, lastCall'.p)) =>
        LET P == lastCall'.p
            Place(s, p) == <<s[p].sponsorId, s[p].level, s[p].sponsorPath>>
        IN /\ DOMAIN partners' = DOMAIN partners
           /\ partners'[P].status = "inactive"
           /\ Place(partners', P) = Place(partners, P)
           /\ lastCall'.q = 0 =>
                \A p \in Ids : Place(partners', p) = Place(partners, p) ]_vars

\* a partner with a sponsor and direct downline has been deactivated
\* without redistribution
C38_Witness ==
  /\ lastCall.op = "deactivatePartner"
  /\ lastCall.result = "ok"
  /\ lastCall.q = 0
  /\ lastCall.n > 0
  /\ partners[lastCall.p].sponsorId # NoSponsor
  /\ partners[lastCall.p].status = "inactive"

\* --------------------------------------- calls of the configuration manager
\* configCall: the last call, its outcome, the number of calls made, and
\* whether importConfiguration has been called
UserId == "admin"

ConfigUpdates ==
  { [business |-> [name |-> "acme"]],
    [business |-> [name |-> ""]],
    [commission |-> [tiers |-> <<1, 2, 3>>]],
    [commission |-> [tiers |-> <<1, 1>>]] }

\* the history of an export made by another manager
ExportedHistory ==
  << [id |-> <<"version", 0>>, version |-> 1, config |-> ConfigOf("acme", <<1>>),
      changes |-> {<<"business", "name">>}, appliedBy |-> UserId, isActive |-> TRUE] >>

ExportedDatas ==
  { <<>>,
    <<[current |-> <<>>, history |-> <<>>]>>,
    <<[current |-> <<[business |-> [name |-> "acme"]]>>, history |-> <<ExportedHistory>>]>>,
    <<[current |-> <<ConfigOf("acme", <<1, 1>>)>>, history |-> <<ExportedHistory>>]>>,
    <<[current |-> <<ConfigOf("acme", <<1>>)>>, history |-> <<>>]>>,
    <<[current |-> <<ConfigOf("acme", <<1>>)>>, history |-> <<ExportedHistory>>]>>,
    <<[current |-> <<ConfigOf("acme", <<1>>)>>, history |-> <<<<JsonNull>>>>]>> }

VersionIds == {<<"version", k>> : k \in 0..MaxConfigCalls}

ConfigCommit(r, op, imported) ==
  /\ configCall.n < MaxConfigCalls
  /\ manager' = r.manager
  /\ configCall' = [op |-> op, result |-> r.result, n |-> configCall.n + 1,
                    imported |-> configCall.imported \/ imported]
  /\ UNCHANGED <<hvars, cvars, pvars, query, fvars>>

UpdateConfiguration(updates) ==
  ConfigCommit(updateConfiguration(manager, updates, UserId), "updateConfiguration", FALSE)

RollbackToVersion(versionId) ==
  ConfigCommit(rollbackToVersion(manager, versionId, UserId), "rollbackToVersion", FALSE)

ImportConfiguration(exportedData, overwriteHistory) ==
  ConfigCommit(importConfiguration(manager, exportedData, UserId, overwriteHistory),
               "importConfiguration", TRUE)

ConfigInit ==
  /\ manager \in {NewManager(DEFAULT_CONFIG), NewManager(ConfigOf("acme", <<1>>))}
  /\ configCall = NoConfigCall
  /\ partners = <<>>
  /\ config = IdleConfig
  /\ lastCall = NoCall
  /\ hung = FALSE
  /\ calls = 0
  /\ rules = IdleRules
  /\ clock = 0
  /\ calc = NoCalc
  /\ prevDists = <<>>
  /\ procs = IdleProcs
  /\ interleaved = FALSE
  /\ query = NoQuery
  /\ thresholds = <<>>
  /\ alerts = <<>>
  /\ riskProfiles = <<>>
  /\ executed = <<>>
  /\ analysis = NoAnalysis

ConfigNext ==
  \/ \E updates \in ConfigUpdates : UpdateConfiguration(updates)
  \/ \E versionId \in VersionIds : RollbackToVersion(versionId)
  \/ \E exportedData \in ExportedDatas, overwriteHistory \in BOOLEAN :
       ImportConfiguration(exportedData, overwriteHistory)

SpecConfig == ConfigInit /\ [][ConfigNext]_vars

\* C39: after any sequence of updateConfiguration and rollbackToVersion calls
\* at most one history entry is active and it is the most recently appended
\* one, its config equals the current configuration, the history is only
\* appended to (a rollback adds an entry, it does not truncate), and the
\* version numbers are 1, 2, 3, ... in append order.
C39_HistoryIsAppendOnly ==
  [][ ~configCall'.imported =>
        LET history == manager.configHistory
            after == manager'.configHistory
        IN /\ \A i \in DOMAIN after :
                /\ after[i].isActive <=> i = Len(after)
                /\ after[i].version = i
           /\ after # <<>> => after[Len(after)].config = manager'.currentConfig
           /\ Len(after) >= Len(history)
           /\ \A i \in DOMAIN history :
                /\ after[i].id = history[i].id
                /\ after[i].config = history[i].config
                /\ after[i].changes = history[i].changes
           /\ configCall'.result = "ok" => Len(after) = Len(history) + 1 ]_vars

\* two updates and a rollback to the first version: three entries, the
\* third active, with the configuration of the first and not of the second
C39_Witness ==
  /\ ~configCall.imported
  /\ configCall.op = "rollbackToVersion"
  /\ configCall.result = "ok"
  /\ Len(manager.configHistory) = 3
  /\ manager.configHistory[3].isActive
  /\ manager.configHistory[3].config = manager.configHistory[1].config
  /\ manager.configHistory[3].config # manager.configHistory[2].config
  /\ manager.currentConfig = manager.configHistory[1].config

\* C40: a failing ConfigurationManager operation makes no mutation: when
\* updateConfiguration fails validation, rollbackToVersion is given an
\* unknown version id, or importConfiguration (with or without
\* overwriteHistory) fails, the current configuration and the version history
\* are the same as before the call.
C40_FailedCallChangesNothing ==
  [][ (configCall'.n = configCall.n + 1 /\ configCall'.result # "ok") =>
        /\ manager'.currentConfig = manager.currentConfig
        /\ manager'.configHistory = manager.configHistory ]_vars

====
